---- MODULE Spec2Model ----
(***************************************************************************)
(* Model of rsearch's asynchronous search session (src/src/search.rs):     *)
(* one worker thread running memmem::find_iter over a haystack and sending *)
(* every offset through an unbounded mpsc channel, and one caller that     *)
(* polls (try_get, drain) or cancels (cancel).                             *)
(*                                                                         *)
(* Offsets are 0-based as in the source; TLA+ sequences are 1-based, so    *)
(* byte i of the haystack is haystack[i + 1].                              *)
(***************************************************************************)
EXTENDS Integers, Sequences, FiniteSets, TLC

\* ------------------------------------------------------------------ bounds

\* Longest haystack and longest needle the initial states draw.
MaxHay == 4
MaxNeedle == 2
\* How far around each edge value the limbs of a numeric needle are sampled.
ValueSpread == 1
\* Longest input text the parsers are given, the listed literals aside.
MaxInputLen == 2
\* The cap of update_search_results on the offsets of one frame, 100000 in the
\* source, scaled to the haystacks of the model.
MAX_RESULTS_PER_FRAME == 2

\* The byte values the haystack and the needle are drawn from.
Bytes == {0, 1}

\* Option<usize>::None of Iterator::next.
None == -1

SeqsUpTo(S, k) == UNION {[1..m -> S] : m \in 0..k}

Max(a, b) == IF a >= b THEN a ELSE b

SetMin(S) == CHOOSE x \in S : \A y \in S : x <= y

Range(s) == {s[k] : k \in 1..Len(s)}

\* ------------------------------------------------------------------- state

VARIABLES
    s,                 \* the Needle handed to create
    haystack,          \* the bytes the worker owns (haystack.as_bytes())
    needle,            \* NeedleOwned.needle
    it_pos,            \* FindIter's position: where the next find starts
    n,                 \* the loop variable of `for n in it`: the offset in flight
    queue,             \* offsets sent and not yet received (the mpsc channel)
    tx_alive,          \* the Sender has not been dropped
    rx_alive,          \* the Receiver has not been dropped
    worker,            \* where the worker thread is
    panicked,          \* the worker thread unwound instead of returning
    caller,            \* where the caller is
    cancel_result,     \* what cancel returned: "none" until it has returned
    last_get,          \* what the latest try_get returned
    last_drain,        \* what the latest drain returned
    delivered,         \* every offset try_get has returned (drain's callback arguments too)
    polls,             \* flips at every try_recv: tells a poll from any other step
    sends_after_drop,  \* send attempts made after the Receiver was dropped
    scans_after_drop,  \* it.next() calls made after the Receiver was dropped
    scanned_after_drop,\* haystack bytes those calls went over
    pos_at_drop,       \* it_pos when the Receiver was dropped
    file_data,         \* FilePanel.file_data: None, or the bytes of the open file
    search_control_panel, \* SearchControlPanel: the input text and its settings
    current_search,    \* BinarySearchApp.current_search
    search_results,    \* SearchResultsPanel.search_results
    driver,            \* where the UI thread is
    results,           \* the Vec update_search_results collects in one frame
    parse_result,      \* what the latest parse_search_input returned
    last_click,        \* "search" from a click on Search until the next UI event
    selection,         \* BinarySearchApp.selection
    data_inspector,    \* DataInspector: little_endian and radix
    inspected,         \* the i64 row the data inspector rendered last
    ui_panic           \* the panic that ended the UI thread, "none" while it runs

vars == <<s, haystack, needle, it_pos, n, queue, tx_alive, rx_alive, worker, panicked,
          caller, cancel_result, last_get, last_drain, delivered, polls,
          sends_after_drop, scans_after_drop, scanned_after_drop, pos_at_drop,
          file_data, search_control_panel, current_search, search_results, driver,
          results, parse_result, last_click, selection, data_inspector, inspected,
          ui_panic>>

input_vars == <<s, haystack, needle>>
worker_vars == <<it_pos, n, worker, panicked, tx_alive>>
caller_vars == <<caller, cancel_result, last_get, last_drain, delivered, polls>>
ghost_vars == <<sends_after_drop, scans_after_drop, scanned_after_drop, pos_at_drop>>
view_vars == <<selection, data_inspector, inspected, ui_panic>>
driver_vars == <<file_data, search_control_panel, current_search, search_results,
                 driver, results, parse_result, last_click, view_vars>>

\* ------------------------------------------------------- memmem::find_iter

\* MatchAt comparing only the bytes that exist: a needle running past the end of
\* hs matches on its prefix.
MatchAtTruncated(hs, nd, i) ==
    /\ i >= 0
    /\ i <= Len(hs)
    /\ \A k \in 1..Len(nd) : i + k <= Len(hs) => hs[i + k] = nd[k]

\* hs[i .. i + |nd|] == nd, the slice lying inside hs.
MatchAt(hs, nd, i) ==
    /\ i >= 0
    /\ i + Len(nd) <= Len(hs)
    /\ \A k \in 1..Len(nd) : hs[i + k] = nd[k]

\* Finder::find on hs[p..]: the first occurrence at or after p, as an offset into hs.
FindFrom(hs, nd, p) ==
    LET S == {i \in p..Len(hs) : MatchAt(hs, nd, i)}
    IN  IF S = {} THEN None ELSE SetMin(S)

\* FindIterNext with the offset left relative to the slice hs[p..]: `pos + idx`
\* forgotten.
FindIterNextRelative(hs, nd, p) ==
    IF p > Len(hs) \/ FindFrom(hs, nd, p) = None THEN None ELSE FindFrom(hs, nd, p) - p

\* FindIter::next: haystack.get(pos..)? is None past the end; otherwise the first
\* occurrence at or after pos.
FindIterNext(hs, nd, p) ==
    IF p > Len(hs) THEN None ELSE FindFrom(hs, nd, p)

\* FindIterAdvance without the max(1, ..): an empty needle never advances.
FindIterAdvanceNoMax(nd, m) == m + Len(nd)

\* FindIter::next: after a match at m the search resumes at m + max(1, |needle|).
FindIterAdvance(nd, m) == m + Max(1, Len(nd))

\* The bytes of the haystack one FindIter::next goes over, starting at p: up to the
\* end of the occurrence it finds, or up to the end of the haystack.
ScanExtent(hs, nd, p) ==
    IF p > Len(hs) THEN 0
    ELSE IF FindFrom(hs, nd, p) = None THEN Len(hs) - p
    ELSE FindFrom(hs, nd, p) + Len(nd) - p

\* ----------------------------------------------------------------- Needle

\* Needle::Bytes(v) and Needle::Str(v): v is the byte sequence borrowed (a &str is
\* its UTF-8 bytes).
NeedleBytes(v) == [kind |-> "Bytes", e |-> "NA", v |-> v]
NeedleStr(v) == [kind |-> "Str", e |-> "NA", v |-> v]

\* A numeric Needle of `bits` bits. Its value is held as 16-bit limbs, least
\* significant first (one limb for 8 and 16 bits, two for 32, four for 64): the
\* value is the sum of v[j] * 65536^(j-1). The limbs are in 0..65535, except that
\* the last limb of a signed value carries the sign: -32768..32767 (-128..127 for
\* i8), and the one limb of a u8 is in 0..255.
NeedleInt(signed, bits, e, v) ==
    [kind |-> (IF signed THEN "I" ELSE "U"), bits |-> bits, e |-> e, v |-> v]

IsNumeric(nd) == nd.kind \in {"U", "I"}

Reverse(q) == [k \in 1..Len(q) |-> q[Len(q) + 1 - k]]

\* to_le_bytes that takes the low byte of a limb for both of its bytes.
to_le_bytes_unshifted(v, nbytes) ==
    [k \in 1..nbytes |-> v[((k - 1) \div 2) + 1] % 256]

\* uN::to_le_bytes / iN::to_le_bytes: byte k (from 0) is (v >> 8k) & 0xFF, the
\* shift arithmetic for a signed value; \div and % round towards minus infinity.
to_le_bytes(v, nbytes) ==
    [k \in 1..nbytes |->
        (v[((k - 1) \div 2) + 1] \div (IF (k - 1) % 2 = 0 THEN 1 ELSE 256)) % 256]

\* to_be_bytes that leaves the bytes in little-endian order.
to_be_bytes_unreversed(v, nbytes) == to_le_bytes(v, nbytes)

\* uN::to_be_bytes / iN::to_be_bytes: the same bytes, most significant first.
to_be_bytes(v, nbytes) == Reverse(to_le_bytes(v, nbytes))

\* The conversion that encodes the magnitude of a signed value's sign-carrying
\* limb, not its two's complement.
NeedleOwnedFromMagnitude(nd) ==
    CASE nd.kind \in {"Bytes", "Str"} -> nd.v
      [] IsNumeric(nd) /\ nd.bits = 8 -> <<Max(nd.v[1], 0 - nd.v[1]) % 256>>
      [] IsNumeric(nd) /\ nd.bits # 8 /\ nd.e = "BE" ->
            to_be_bytes([nd.v EXCEPT ![Len(nd.v)] = Max(@, 0 - @)], nd.bits \div 8)
      [] IsNumeric(nd) /\ nd.bits # 8 /\ nd.e = "LE" ->
            to_le_bytes([nd.v EXCEPT ![Len(nd.v)] = Max(@, 0 - @)], nd.bits \div 8)

\* The conversion that ends the bytes of a Str with a NUL byte.
NeedleOwnedFromCString(nd) ==
    CASE nd.kind = "Bytes" -> nd.v
      [] nd.kind = "Str" -> Append(nd.v, 0)
      [] IsNumeric(nd) /\ nd.bits = 8 -> <<nd.v[1] % 256>>
      [] IsNumeric(nd) /\ nd.bits # 8 /\ nd.e = "BE" -> to_be_bytes(nd.v, nd.bits \div 8)
      [] IsNumeric(nd) /\ nd.bits # 8 /\ nd.e = "LE" -> to_le_bytes(nd.v, nd.bits \div 8)

\* impl From<Needle> for NeedleOwned: the bytes of the owned needle.
NeedleOwnedFrom(nd) ==
    CASE nd.kind \in {"Bytes", "Str"} -> nd.v
      [] IsNumeric(nd) /\ nd.bits = 8 -> <<nd.v[1] % 256>>
      [] IsNumeric(nd) /\ nd.bits # 8 /\ nd.e = "BE" -> to_be_bytes(nd.v, nd.bits \div 8)
      [] IsNumeric(nd) /\ nd.bits # 8 /\ nd.e = "LE" -> to_le_bytes(nd.v, nd.bits \div 8)

\* NeedleOwned::byte_length
byte_length(owned) == Len(owned)

\* --------------------------------------------------------- data inspector

EOF_MSG == "No Data"

\* uN::from_le_bytes / iN::from_le_bytes: the limbs of the value the bytes b hold,
\* least significant byte first; the top bit of the last byte is the sign of a
\* signed value.
from_le_bytes(b, signed) ==
    [j \in 1..(Len(b) \div 2) |->
        IF signed /\ j = Len(b) \div 2 /\ b[2 * j] >= 128
        THEN b[2 * j - 1] + 256 * b[2 * j] - 65536
        ELSE b[2 * j - 1] + 256 * b[2 * j]]

\* uN::from_be_bytes / iN::from_be_bytes: most significant byte first.
from_be_bytes(b, signed) == from_le_bytes(Reverse(b), signed)

\* The value DataInspector reads at the start of b, before it is formatted: the
\* first `nbytes` bytes in the byte order asked for, or EOF_MSG if b is shorter.
intepret_uN(b, nbytes, is_little_endian) ==
    IF Len(b) < nbytes THEN EOF_MSG
    ELSE IF is_little_endian THEN from_le_bytes(SubSeq(b, 1, nbytes), FALSE)
    ELSE from_be_bytes(SubSeq(b, 1, nbytes), FALSE)

intepret_iN(b, nbytes, is_little_endian) ==
    IF Len(b) < nbytes THEN EOF_MSG
    ELSE IF is_little_endian THEN from_le_bytes(SubSeq(b, 1, nbytes), TRUE)
    ELSE from_be_bytes(SubSeq(b, 1, nbytes), TRUE)

\* b[0] as u64
intepret_u8(b) == IF Len(b) = 0 THEN EOF_MSG ELSE <<b[1]>>

\* b[0] as i8 as i64
intepret_i8(b) ==
    IF Len(b) = 0 THEN EOF_MSG
    ELSE <<IF b[1] >= 128 THEN b[1] - 256 ELSE b[1]>>

intepret_u16(b, is_little_endian) == intepret_uN(b, 2, is_little_endian)
intepret_i16(b, is_little_endian) == intepret_iN(b, 2, is_little_endian)
intepret_u32(b, is_little_endian) == intepret_uN(b, 4, is_little_endian)
intepret_i32(b, is_little_endian) == intepret_iN(b, 4, is_little_endian)
intepret_u64(b, is_little_endian) == intepret_uN(b, 8, is_little_endian)
intepret_i64(b, is_little_endian) == intepret_iN(b, 8, is_little_endian)

\* The inspector's reading of b with the width, signedness and byte order of the
\* numeric needle nd.
InterpretAs(nd, b) ==
    CASE nd.kind = "U" /\ nd.bits = 8 -> intepret_u8(b)
      [] nd.kind = "I" /\ nd.bits = 8 -> intepret_i8(b)
      [] nd.kind = "U" /\ nd.bits = 16 -> intepret_u16(b, nd.e = "LE")
      [] nd.kind = "I" /\ nd.bits = 16 -> intepret_i16(b, nd.e = "LE")
      [] nd.kind = "U" /\ nd.bits = 32 -> intepret_u32(b, nd.e = "LE")
      [] nd.kind = "I" /\ nd.bits = 32 -> intepret_i32(b, nd.e = "LE")
      [] nd.kind = "U" /\ nd.bits = 64 -> intepret_u64(b, nd.e = "LE")
      [] nd.kind = "I" /\ nd.bits = 64 -> intepret_i64(b, nd.e = "LE")

\* The digits of {}, {:X}, {:b} and {:o}.
FmtDigitChars == <<"0", "1", "2", "3", "4", "5", "6", "7", "8", "9",
                   "A", "B", "C", "D", "E", "F">>

RadixBase(radix) ==
    CASE radix = "Decimal" -> 10 [] radix = "Hexadecimal" -> 16
      [] radix = "Binary" -> 2 [] radix = "Octal" -> 8

RadixPrefix(radix) ==
    CASE radix = "Decimal" -> <<>> [] radix = "Hexadecimal" -> <<"0", "x">>
      [] radix = "Binary" -> <<"0", "b">> [] radix = "Octal" -> <<"0", "o">>

\* The digits of the u64 of limbs u in the base, most significant first, as the
\* formatting of integers writes them: repeated division by the base, the least
\* significant digit first. The division is done for ChunkDigits digits at a
\* time, by the power of the base that still fits the arithmetic on limbs, and
\* the zeros in front of the most significant chunk are not written.
ChunkDigits(base) == CASE base = 2 -> 14 [] base = 8 -> 4 [] base = 10 -> 4 [] base = 16 -> 3

RECURSIVE fmt_u64_digits(_, _)
fmt_u64_digits(u, base) ==
    LET len == Len(u)
        count == ChunkDigits(base)
        chunk == base ^ count
        DivRem ==
            LET r[j \in 1..(len + 1)] ==
                    IF j = len + 1 THEN 0 ELSE (r[j + 1] * 65536 + u[j]) % chunk
            IN  [quot |-> [j \in 1..len |-> (r[j + 1] * 65536 + u[j]) \div chunk],
                 rem |-> r[1]]
        Low(rem) == [k \in 1..count |-> FmtDigitChars[((rem \div (base ^ (count - k))) % base) + 1]]
        Top(digits) ==
            LET nz == {k \in 1..Len(digits) : digits[k] # "0"}
            IN  IF nz = {} THEN <<"0">>
                ELSE SubSeq(digits, CHOOSE k \in nz : \A m \in nz : k <= m, Len(digits))
    IN  CHOOSE text \in
            {IF \A j \in 1..len : d.quot[j] = 0
             THEN Top(Low(d.rem))
             ELSE fmt_u64_digits(d.quot, base) \o Low(d.rem) :
                 d \in {DivRem}} : TRUE

\* value as u64: the same 64 bits.
as_u64(value) ==
    [value EXCEPT ![Len(value)] = IF @ < 0 THEN @ + 65536 ELSE @]

\* 0 - value on the 64 bits of an i64, the overflow of i64::MIN wrapped.
wrapping_neg(value) ==
    LET u == as_u64(value)
        c[j \in 0..Len(u)] ==
            IF j = 0 THEN 1 ELSE ((65535 - u[j]) + c[j - 1]) \div 65536
        t == [j \in 1..Len(u) |-> ((65535 - u[j]) + c[j - 1]) % 65536]
    IN  [t EXCEPT ![Len(u)] = IF @ >= 32768 THEN @ - 65536 ELSE @]

I64_MIN == <<0, 0, 0, -32768>>

\* What a formatting gives: its text, or the panic of an arithmetic overflow.
Formatted(text) == [panic |-> "none", text |-> text]

FormatPanic(msg) == [panic |-> msg, text |-> <<>>]

\* DataInspector::format_signed_number, every outcome a build can give: -value
\* overflows for i64::MIN, which panics where overflow is checked (a debug build)
\* and wraps to i64::MIN where it is not (a release build).
format_signed_number(value, radix) ==
    LET negative == value[Len(value)] < 0
        digits(v) == fmt_u64_digits(as_u64(v), RadixBase(radix))
    IN  IF radix = "Decimal"
        THEN {Formatted(IF negative THEN <<"-">> \o digits(wrapping_neg(value))
                        ELSE digits(value))}
        ELSE IF negative
        THEN {Formatted(<<"-">> \o RadixPrefix(radix) \o digits(wrapping_neg(value)))}
             \cup (IF value = I64_MIN
                   THEN {FormatPanic("attempt to negate with overflow")}
                   ELSE {})
        ELSE {Formatted(RadixPrefix(radix) \o digits(value))}

\* The i64 row of DataInspector::get_data_interpretations: intepret_i64 on the
\* bytes from the offset on, formatted.
intepret_i64_row(b, radix, is_little_endian) ==
    IF Len(b) < 8 THEN {Formatted(<<EOF_MSG>>)}
    ELSE format_signed_number(intepret_i64(b, is_little_endian), radix)

\* ---------------------------------------------------------------- IntParser

\* A &str is the sequence of its chars; a char is named by a string: an ASCII char
\* by itself, U+00E9 (e with acute, two bytes in UTF-8) by its code point. Utf8 is
\* the UTF-8 encoding of the chars the model uses.
Utf8 ==
    (" " :> <<32>>) @@ ("+" :> <<43>>) @@ ("-" :> <<45>>) @@ ("0" :> <<48>>)
    @@ ("1" :> <<49>>) @@ ("2" :> <<50>>) @@ ("3" :> <<51>>) @@ ("4" :> <<52>>)
    @@ ("5" :> <<53>>) @@ ("6" :> <<54>>) @@ ("7" :> <<55>>) @@ ("8" :> <<56>>)
    @@ ("9" :> <<57>>) @@ ("a" :> <<97>>) @@ ("b" :> <<98>>) @@ ("c" :> <<99>>)
    @@ ("d" :> <<100>>) @@ ("e" :> <<101>>) @@ ("f" :> <<102>>) @@ ("A" :> <<65>>)
    @@ ("B" :> <<66>>) @@ ("C" :> <<67>>) @@ ("D" :> <<68>>) @@ ("E" :> <<69>>)
    @@ ("F" :> <<70>>) @@ ("g" :> <<103>>) @@ ("x" :> <<120>>) @@ ("X" :> <<88>>)
    @@ ("o" :> <<111>>) @@ ("O" :> <<79>>) @@ ("\t" :> <<9>>) @@ ("\n" :> <<10>>)
    @@ ("U+00E9" :> <<195, 169>>)

len_utf8(c) == Len(Utf8[c])

\* str::len: the length in bytes.
RECURSIVE ByteLen(_)
ByteLen(str) == IF str = <<>> THEN 0 ELSE len_utf8(Head(str)) + ByteLen(Tail(str))

\* str::as_bytes
RECURSIVE as_bytes(_)
as_bytes(str) == IF str = <<>> THEN <<>> ELSE Utf8[Head(str)] \o as_bytes(Tail(str))

\* str::is_char_boundary: byte index i is the start of a char or the end of str.
is_char_boundary(str, i) == \E k \in 0..Len(str) : ByteLen(SubSeq(str, 1, k)) = i

\* The number of chars in the first i bytes of str, i being a char boundary.
CharsIn(str, i) == CHOOSE k \in 0..Len(str) : ByteLen(SubSeq(str, 1, k)) = i

\* The chars with the Unicode property White_Space, which str::trim removes.
WhiteSpace == {" ", "\t", "\n"}

SetMax(S) == CHOOSE x \in S : \A y \in S : x >= y

\* str::trim_start alone: trailing white space stays.
trim_start_only(str) ==
    LET keep == {k \in 1..Len(str) : str[k] \notin WhiteSpace}
    IN  IF keep = {} THEN <<>> ELSE SubSeq(str, SetMin(keep), Len(str))

\* str::trim
trim(str) ==
    LET keep == {k \in 1..Len(str) : str[k] \notin WhiteSpace}
    IN  IF keep = {} THEN <<>> ELSE SubSeq(str, SetMin(keep), SetMax(keep))

\* char::to_lowercase, which changes the upper-case letters only.
to_lowercase(c) ==
    CASE c = "A" -> "a" [] c = "B" -> "b" [] c = "C" -> "c" [] c = "D" -> "d"
      [] c = "E" -> "e" [] c = "F" -> "f" [] c = "X" -> "x" [] c = "O" -> "o"
      [] OTHER -> c

\* char::to_digit(radix): the value of a digit of that radix, None of anything else.
DigitChars == <<"0", "1", "2", "3", "4", "5", "6", "7", "8", "9",
                "a", "b", "c", "d", "e", "f">>
to_digit(c, radix) ==
    LET d == {k \in 1..radix : DigitChars[k] = to_lowercase(c)}
    IN  IF d = {} THEN None ELSE SetMin(d) - 1

\* What a parse gives: Ok(v), v the limbs of the value as in NeedleInt, or Err(kind);
\* Panicked is a parse that unwound instead of returning.
Ok(v) == [ok |-> TRUE, kind |-> "Ok", v |-> v]
Err(kind) == [ok |-> FALSE, kind |-> kind, v |-> <<>>]
Panicked == [ok |-> FALSE, kind |-> "panic", v |-> <<>>]

\* parse_base_and_number that compares the prefix as it is written, without
\* to_lowercase.
parse_base_and_number_case_sensitive(input) ==
    IF ByteLen(input) >= 2
    THEN IF ~is_char_boundary(input, 2) THEN Panicked
         ELSE LET k == CharsIn(input, 2)
                  prefix == SubSeq(input, 1, k)
                  rest == SubSeq(input, k + 1, Len(input))
              IN  CASE prefix = <<"0", "x">> -> [base |-> 16, number_part |-> rest]
                    [] prefix = <<"0", "b">> -> [base |-> 2, number_part |-> rest]
                    [] prefix = <<"0", "o">> -> [base |-> 8, number_part |-> rest]
                    [] OTHER -> [base |-> 10, number_part |-> input]
    ELSE [base |-> 10, number_part |-> input]

\* IntParser::parse_base_and_number: with two bytes or more, &input[..2] is the
\* prefix; the slice panics when byte 2 is inside a char.
parse_base_and_number(input) ==
    IF ByteLen(input) >= 2
    THEN IF ~is_char_boundary(input, 2) THEN Panicked
         ELSE LET k == CharsIn(input, 2)
                  prefix == [j \in 1..k |-> to_lowercase(input[j])]
                  rest == SubSeq(input, k + 1, Len(input))
              IN  CASE prefix = <<"0", "x">> -> [base |-> 16, number_part |-> rest]
                    [] prefix = <<"0", "b">> -> [base |-> 2, number_part |-> rest]
                    [] prefix = <<"0", "o">> -> [base |-> 8, number_part |-> rest]
                    [] OTHER -> [base |-> 10, number_part |-> input]
    ELSE [base |-> 10, number_part |-> input]

\* The number of 16-bit limbs of a value of `bits` bits.
NLimbs(bits) == IF bits = 8 THEN 1 ELSE bits \div 16

\* checked_mul(radix) then checked_add(x) on the magnitude acc: the limbs of
\* acc * radix + x and what is carried out of them.
MulAdd(acc, radix, x) ==
    LET c[j \in 0..Len(acc)] ==
            IF j = 0 THEN x ELSE (acc[j] * radix + c[j - 1]) \div 65536
    IN  [limbs |-> [j \in 1..Len(acc) |-> (acc[j] * radix + c[j - 1]) % 65536],
         carry |-> c[Len(acc)]]

\* The magnitude r is outside the type: above MAX, or for a negative number
\* above -MIN.
Overflows(r, neg, signed, bits) ==
    LET top == r.limbs[Len(r.limbs)]
        half == IF bits = 8 THEN 128 ELSE 32768
        low_zero == \A j \in 1..(Len(r.limbs) - 1) : r.limbs[j] = 0
    IN  \/ r.carry > 0
        \/ ~signed /\ top >= 2 * half
        \/ signed /\ ~neg /\ top >= half
        \/ signed /\ neg /\ (top > half \/ (top = half /\ ~low_zero))

\* The limbs of the value -m, m given by its limbs: two's complement, the last
\* limb carrying the sign.
Negated(m, bits) ==
    IF bits = 8 THEN <<0 - m[1]>>
    ELSE LET c[j \in 0..Len(m)] ==
                 IF j = 0 THEN 1 ELSE ((65535 - m[j]) + c[j - 1]) \div 65536
             t == [j \in 1..Len(m) |-> ((65535 - m[j]) + c[j - 1]) % 65536]
         IN  [t EXCEPT ![Len(m)] = IF @ >= 32768 THEN @ - 65536 ELSE @]

\* The digit loop of from_str_radix from the k-th digit on: a char that is no
\* digit of the radix is InvalidDigit; then the multiplication and the addition
\* are checked, PosOverflow or NegOverflow by the sign.
RECURSIVE DigitLoop(_, _, _, _, _, _, _)
DigitLoop(digits, k, radix, neg, signed, bits, acc) ==
    IF k > Len(digits) THEN Ok(IF neg THEN Negated(acc, bits) ELSE acc)
    ELSE IF to_digit(digits[k], radix) = None THEN Err("InvalidDigit")
    ELSE LET r == MulAdd(acc, radix, to_digit(digits[k], radix))
         IN  IF Overflows(r, neg, signed, bits)
             THEN Err(IF neg THEN "NegOverflow" ELSE "PosOverflow")
             ELSE DigitLoop(digits, k + 1, radix, neg, signed, bits, r.limbs)

\* uN::from_str_radix / iN::from_str_radix: an empty src is Empty, a lone sign is
\* InvalidDigit; a leading + is dropped, a leading - only by a signed type.
from_str_radix(src, radix, signed, bits) ==
    IF src = <<>> THEN Err("Empty")
    ELSE IF src \in {<<"+">>, <<"-">>} THEN Err("InvalidDigit")
    ELSE LET neg == signed /\ src[1] = "-"
             digits == IF src[1] = "+" \/ neg THEN Tail(src) ELSE src
         IN  DigitLoop(digits, 1, radix, neg, signed, bits,
                       [j \in 1..NLimbs(bits) |-> 0])

\* IntParser with trim_start in place of trim.
IntParseTrimStart(input, signed, bits) ==
    LET trimmed == trim_start_only(input)
        bn == parse_base_and_number(trimmed)
        result == from_str_radix(bn.number_part, bn.base, signed, bits)
    IN  IF trimmed = <<>> THEN Err("Empty")
        ELSE IF bn = Panicked THEN Panicked
        ELSE IF bn.number_part = <<>> THEN Err("Invalid")
        ELSE IF result.ok THEN result
        ELSE IF result.kind \in {"PosOverflow", "NegOverflow"} THEN Err("Overflow")
        ELSE Err("Invalid")

\* IntParser with the overflow of from_str_radix reported as Invalid.
IntParseOverflowIsInvalid(input, signed, bits) ==
    LET trimmed == trim(input)
        bn == parse_base_and_number(trimmed)
        result == from_str_radix(bn.number_part, bn.base, signed, bits)
    IN  IF trimmed = <<>> THEN Err("Empty")
        ELSE IF bn = Panicked THEN Panicked
        ELSE IF bn.number_part = <<>> THEN Err("Invalid")
        ELSE IF result.ok THEN result
        ELSE Err("Invalid")

\* The body the eight parsers share: IntParser::parse_u8 .. parse_i64 for
\* (signed, bits).
IntParse(input, signed, bits) ==
    LET trimmed == trim(input)
        bn == parse_base_and_number(trimmed)
        result == from_str_radix(bn.number_part, bn.base, signed, bits)
    IN  IF trimmed = <<>> THEN Err("Empty")
        ELSE IF bn = Panicked THEN Panicked
        ELSE IF bn.number_part = <<>> THEN Err("Invalid")
        ELSE IF result.ok THEN result
        ELSE IF result.kind \in {"PosOverflow", "NegOverflow"} THEN Err("Overflow")
        ELSE Err("Invalid")

parse_u8(input) == IntParse(input, FALSE, 8)
parse_i8(input) == IntParse(input, TRUE, 8)
parse_u16(input) == IntParse(input, FALSE, 16)
parse_i16(input) == IntParse(input, TRUE, 16)
parse_u32(input) == IntParse(input, FALSE, 32)
parse_i32(input) == IntParse(input, TRUE, 32)
parse_u64(input) == IntParse(input, FALSE, 64)
parse_i64(input) == IntParse(input, TRUE, 64)

\* ------------------------------------------------------------------- Init

\* FilePanel.file_data, an Option: None, or Some of the bytes of the open file.
NoFile == [some |-> FALSE, data |-> <<>>]

SomeFile(data) == [some |-> TRUE, data |-> data]

\* No input has been parsed yet.
NotParsed == [ok |-> FALSE, kind |-> "none"]

\* Option<Selection>: None, or Some of a start and an end, both inclusive.
NoSelection == [some |-> FALSE, start |-> 0, end |-> 0]

\* Selection::new
SelectionNew(offset) == [some |-> TRUE, start |-> offset, end |-> offset]

\* Selection::range
SelectionRange(start, end) == [some |-> TRUE, start |-> start, end |-> end]

\* Selection::lower
lower(sel) == IF sel.start <= sel.end THEN sel.start ELSE sel.end

\* DataInspector::new
DataInspectorNew == [little_endian |-> TRUE, radix |-> "Decimal"]

\* The data inspector has rendered nothing yet.
NotInspected == <<>>

\* enum CurrentSearch; len is the byte length of the needle of the search.
CurrentSearchEmpty == [tag |-> "Empty", len |-> 0]
Searching(len) == [tag |-> "Searching", len |-> len]
Finished(len) == [tag |-> "Finished", len |-> len]

\* SearchControlPanel::new()
SearchControlPanelNew ==
    [search_type |-> "Bit8", search_input |-> <<>>, endianness |-> "LE",
     encoding |-> "UTF8", is_signed |-> FALSE]

\* BinarySearchApp::default(): no file, no search, no results; the UI thread is
\* between two handlers.
AppDefault ==
    /\ file_data = NoFile
    /\ search_control_panel = SearchControlPanelNew
    /\ current_search = CurrentSearchEmpty
    /\ search_results = <<>>
    /\ driver = "idle"
    /\ results = <<>>
    /\ parse_result = NotParsed
    /\ last_click = "none"
    /\ selection = NoSelection
    /\ data_inspector = DataInspectorNew
    /\ inspected = NotInspected
    /\ ui_panic = "none"

\* The state create_from_owned returns in: the channel exists, the thread is
\* spawned and has not run yet.
Init ==
    /\ haystack \in SeqsUpTo(Bytes, MaxHay)
    /\ needle \in SeqsUpTo(Bytes, MaxNeedle)
    /\ s = NeedleBytes(needle)
    /\ it_pos = 0
    /\ n = None
    /\ queue = <<>>
    /\ tx_alive = TRUE
    /\ rx_alive = TRUE
    /\ worker = "spawned"
    /\ panicked = FALSE
    /\ caller = "idle"
    /\ cancel_result = "none"
    /\ last_get = "none"
    /\ last_drain = "none"
    /\ delivered = <<>>
    /\ polls = 0
    /\ sends_after_drop = 0
    /\ scans_after_drop = 0
    /\ scanned_after_drop = 0
    /\ pos_at_drop = None
    /\ AppDefault

\* No session yet: create has been called and has not returned; there is no
\* channel and no thread.
NoSession ==
    /\ needle = <<>>
    /\ it_pos = 0
    /\ n = None
    /\ queue = <<>>
    /\ tx_alive = FALSE
    /\ rx_alive = FALSE
    /\ worker = "none"
    /\ panicked = FALSE
    /\ caller = "start"
    /\ cancel_result = "none"
    /\ last_get = "none"
    /\ last_drain = "none"
    /\ delivered = <<>>
    /\ polls = 0
    /\ sends_after_drop = 0
    /\ scans_after_drop = 0
    /\ scanned_after_drop = 0
    /\ pos_at_drop = None

\* create is called with a haystack and a Bytes needle.
CreateInit ==
    /\ haystack \in SeqsUpTo(Bytes, MaxHay)
    /\ s \in {NeedleBytes(v) : v \in SeqsUpTo(Bytes, MaxNeedle)}
    /\ NoSession
    /\ AppDefault

\* b"hello world hello universe" and "hello", as in
\* test_async_search_with_needle_owned.
HelloHaystack ==
    <<104, 101, 108, 108, 111, 32, 119, 111, 114, 108, 100, 32,
      104, 101, 108, 108, 111, 32, 117, 110, 105, 118, 101, 114, 115, 101>>
HelloNeedle == NeedleStr(<<104, 101, 108, 108, 111>>)

\* The 16 bytes 0x00..0x0F and the needle U8(0x10).
SixteenHaystack == [k \in 1..16 |-> k - 1]
SixteenNeedle == NeedleInt(FALSE, 8, "NA", <<16>>)

\* create is called with one of the two scenarios, or with a haystack and a Bytes
\* needle as in CreateInit.
ScenarioInit ==
    /\ \/ haystack = HelloHaystack /\ s = HelloNeedle
       \/ haystack = SixteenHaystack /\ s = SixteenNeedle
       \/ /\ haystack \in SeqsUpTo(Bytes, MaxHay)
          /\ s \in {NeedleBytes(v) : v \in SeqsUpTo(Bytes, MaxNeedle)}
    /\ NoSession
    /\ AppDefault

\* The limbs a numeric needle is sampled at: around the edges of the 16-bit range
\* and around 0x1234.
LimbEdges == {0, 4660, 32768, 65535}
Limbs ==
    UNION {{c + d : d \in (0 - ValueSpread)..ValueSpread} : c \in LimbEdges} \cap 0..65535

\* The same for the last limb of a signed value.
SignedLimbEdges == {-32768, -1, 0, 4660, 32767}
SignedLimbs ==
    UNION {{c + d : d \in (0 - ValueSpread)..ValueSpread} : c \in SignedLimbEdges}
        \cap -32768..32767

\* The limb sequences of the sampled values of a type of `bits` bits, 16 and up.
Values(signed, bits) ==
    LET Top == IF signed THEN SignedLimbs ELSE Limbs
    IN  CASE bits = 16 -> {<<t>> : t \in Top}
          [] bits = 32 -> {<<a, t>> : a \in Limbs, t \in Top}
          [] bits = 64 -> {<<a, b, c, t>> : a, b, c \in Limbs, t \in Top}

\* create is called with a numeric needle on an empty haystack: any u8 or i8, or
\* a sampled value of a wider type in either byte order.
EncInit ==
    /\ haystack = <<>>
    /\ \/ \E x \in 0..255 : s = NeedleInt(FALSE, 8, "NA", <<x>>)
       \/ \E x \in -128..127 : s = NeedleInt(TRUE, 8, "NA", <<x>>)
       \/ \E signed \in BOOLEAN, bits \in {16, 32, 64}, e \in {"LE", "BE"} :
             \E v \in Values(signed, bits) : s = NeedleInt(signed, bits, e, v)
    /\ NoSession
    /\ AppDefault

\* The byte values a Bytes or Str needle is drawn from.
NeedleByteSamples == {0, 1, 104, 195, 255}

\* create is called with a needle of any variant: the numeric needles of EncInit,
\* or a Bytes or Str needle of up to MaxNeedle bytes, the empty one included.
AnyNeedleInit ==
    /\ haystack = <<>>
    /\ \/ \E x \in 0..255 : s = NeedleInt(FALSE, 8, "NA", <<x>>)
       \/ \E x \in -128..127 : s = NeedleInt(TRUE, 8, "NA", <<x>>)
       \/ \E signed \in BOOLEAN, bits \in {16, 32, 64}, e \in {"LE", "BE"} :
             \E v \in Values(signed, bits) : s = NeedleInt(signed, bits, e, v)
       \/ \E v \in SeqsUpTo(NeedleByteSamples, MaxNeedle) : s = NeedleBytes(v)
       \/ \E v \in SeqsUpTo(NeedleByteSamples, MaxNeedle) : s = NeedleStr(v)
    /\ NoSession
    /\ AppDefault

\* ----------------------------------------------------------------- create

\* create that returns only once the spawned thread has started running.
create_waits_for_worker ==
    /\ caller = "start"
    /\ needle' = NeedleOwnedFrom(s)
    /\ queue' = <<>>
    /\ tx_alive' = TRUE
    /\ rx_alive' = TRUE
    /\ worker' = "next"
    /\ caller' = "idle"
    /\ UNCHANGED <<driver_vars, s, haystack, it_pos, n, panicked, cancel_result, last_get,
                   last_drain, delivered, polls, ghost_vars>>

\* AsyncSearch::create: s.into().into() makes the owned needle, create_from_owned
\* makes the channel, spawns the one worker thread and returns the session.
create ==
    /\ caller = "start"
    /\ needle' = NeedleOwnedFrom(s)
    /\ queue' = <<>>
    /\ tx_alive' = TRUE
    /\ rx_alive' = TRUE
    /\ worker' = "spawned"
    /\ caller' = "idle"
    /\ UNCHANGED <<driver_vars, s, haystack, it_pos, n, panicked, cancel_result, last_get,
                   last_drain, delivered, polls, ghost_vars>>

\* ----------------------------------------------------------------- worker

\* The thread starts: hs = haystack.as_bytes(), it = find_iter(hs, needle).
worker_start ==
    /\ worker = "spawned"
    /\ worker' = "next"
    /\ UNCHANGED <<driver_vars, input_vars, it_pos, n, queue, tx_alive, rx_alive, panicked,
                   caller_vars, ghost_vars>>

\* `for n in it`: one it.next(). None ends the loop and the closure returns, which
\* drops tx; Some(m) enters the loop body.
worker_next ==
    /\ worker = "next"
    /\ LET m == FindIterNext(haystack, needle, it_pos)
       IN  IF m = None
           THEN /\ worker' = "returned"
                /\ tx_alive' = FALSE
                /\ UNCHANGED <<it_pos, n>>
           ELSE /\ worker' = "send"
                /\ n' = m
                /\ it_pos' = FindIterAdvance(needle, m)
                /\ UNCHANGED tx_alive
    /\ IF rx_alive
       THEN UNCHANGED <<scans_after_drop, scanned_after_drop>>
       ELSE /\ scans_after_drop' = scans_after_drop + 1
            /\ scanned_after_drop' =
                   scanned_after_drop + ScanExtent(haystack, needle, it_pos)
    /\ UNCHANGED <<driver_vars, input_vars, queue, rx_alive, panicked, caller_vars,
                   sends_after_drop, pos_at_drop>>

\* worker_send with the result of send ignored: no `break` on Err.
worker_send_ignores_err ==
    /\ worker = "send"
    /\ worker' = "next"
    /\ IF rx_alive
       THEN /\ queue' = Append(queue, n)
            /\ UNCHANGED sends_after_drop
       ELSE /\ sends_after_drop' = sends_after_drop + 1
            /\ UNCHANGED queue
    /\ UNCHANGED <<driver_vars, input_vars, it_pos, n, tx_alive, rx_alive, panicked, caller_vars,
                   scans_after_drop, scanned_after_drop, pos_at_drop>>

\* worker_send on a channel whose send waits for a receiver instead of failing.
worker_send_waits ==
    /\ worker = "send"
    /\ rx_alive
    /\ queue' = Append(queue, n)
    /\ worker' = "next"
    /\ UNCHANGED <<driver_vars, input_vars, it_pos, n, tx_alive, rx_alive, panicked, caller_vars,
                   ghost_vars>>

\* tx.send(n): Ok while the Receiver lives (the channel is unbounded, send never
\* waits); Err once it is dropped, and the worker breaks and returns, dropping tx.
worker_send ==
    /\ worker = "send"
    /\ IF rx_alive
       THEN /\ queue' = Append(queue, n)
            /\ worker' = "next"
            /\ UNCHANGED <<tx_alive, sends_after_drop>>
       ELSE /\ worker' = "returned"
            /\ tx_alive' = FALSE
            /\ sends_after_drop' = sends_after_drop + 1
            /\ UNCHANGED queue
    /\ UNCHANGED <<driver_vars, input_vars, it_pos, n, rx_alive, panicked, caller_vars,
                   scans_after_drop, scanned_after_drop, pos_at_drop>>

\* The thread ends after the closure has returned or unwound: join can return.
worker_exit ==
    /\ worker = "returned"
    /\ worker' = "exited"
    /\ UNCHANGED <<driver_vars, input_vars, it_pos, n, queue, tx_alive, rx_alive, panicked,
                   caller_vars, ghost_vars>>

\* A fault in the worker: the closure unwinds, which drops tx like a return does.
worker_panic ==
    /\ worker \in {"spawned", "next", "send"}
    /\ worker' = "returned"
    /\ panicked' = TRUE
    /\ tx_alive' = FALSE
    /\ UNCHANGED <<driver_vars, input_vars, it_pos, n, queue, rx_alive, caller_vars, ghost_vars>>

\* ----------------------------------------------------------------- caller

\* TryRecv looking at the disconnect before the buffer.
TryRecvDisconnectFirst(q, sender_alive) ==
    IF ~sender_alive THEN "Finished"
    ELSE IF q # <<>> THEN "Ok"
    ELSE "Pending"

\* TryRecv with Disconnected mapped to Pending like Empty.
TryRecvDisconnectedIsPending(q, sender_alive) ==
    IF q # <<>> THEN "Ok" ELSE "Pending"

\* Receiver::try_recv mapped by try_get: a buffered offset first; with nothing
\* buffered, Empty (Pending) while the Sender lives and Disconnected (Finished) after.
TryRecv(q, sender_alive) ==
    IF q # <<>> THEN "Ok"
    ELSE IF sender_alive THEN "Pending"
    ELSE "Finished"

\* Poll with recv() in place of try_recv(): it waits while nothing is buffered and
\* the Sender lives.
PollBlocking ==
    /\ queue # <<>> \/ ~tx_alive
    /\ last_get' = TryRecv(queue, tx_alive)
    /\ polls' = 1 - polls
    /\ IF queue # <<>>
       THEN /\ delivered' = Append(delivered, Head(queue))
            /\ queue' = Tail(queue)
       ELSE UNCHANGED <<delivered, queue>>

\* One try_recv and its effect on the channel and on what the caller has received.
Poll ==
    /\ last_get' = TryRecv(queue, tx_alive)
    /\ polls' = 1 - polls
    /\ IF TryRecv(queue, tx_alive) = "Ok"
       THEN /\ delivered' = Append(delivered, Head(queue))
            /\ queue' = Tail(queue)
       ELSE UNCHANGED <<delivered, queue>>

\* AsyncSearch::try_get
try_get ==
    /\ caller = "idle"
    /\ Poll
    /\ UNCHANGED <<driver_vars, input_vars, worker_vars, rx_alive, caller, cancel_result,
                   last_drain, ghost_vars>>

\* AsyncSearch::drain is entered.
drain_call ==
    /\ caller = "idle"
    /\ caller' = "drain"
    /\ UNCHANGED <<driver_vars, input_vars, worker_vars, queue, rx_alive, cancel_result, last_get,
                   last_drain, delivered, polls, ghost_vars>>

\* drain_loop returning Pending whatever state try_get reported.
drain_loop_returns_pending ==
    /\ caller = "drain"
    /\ Poll
    /\ IF TryRecv(queue, tx_alive) = "Ok"
       THEN UNCHANGED <<caller, last_drain>>
       ELSE /\ caller' = "idle"
            /\ last_drain' = "Pending"
    /\ UNCHANGED <<driver_vars, input_vars, worker_vars, rx_alive, cancel_result, ghost_vars>>

\* drain_loop that returns on Finished only: Pending loops like an offset does.
drain_loop_until_finished ==
    /\ caller = "drain"
    /\ Poll
    /\ IF TryRecv(queue, tx_alive) = "Finished"
       THEN /\ caller' = "idle"
            /\ last_drain' = "Finished"
       ELSE UNCHANGED <<caller, last_drain>>
    /\ UNCHANGED <<driver_vars, input_vars, worker_vars, rx_alive, cancel_result, ghost_vars>>

\* One turn of drain's loop: Ok(v) calls callback(v) and loops, Err(e) returns e.
drain_loop ==
    /\ caller = "drain"
    /\ Poll
    /\ IF TryRecv(queue, tx_alive) = "Ok"
       THEN UNCHANGED <<caller, last_drain>>
       ELSE /\ caller' = "idle"
            /\ last_drain' = TryRecv(queue, tx_alive)
    /\ UNCHANGED <<driver_vars, input_vars, worker_vars, rx_alive, cancel_result, ghost_vars>>

\* cancel_drop that also releases the haystack while the worker may still read it.
cancel_drop_frees_haystack ==
    /\ caller = "idle"
    /\ caller' = "join"
    /\ rx_alive' = FALSE
    /\ queue' = <<>>
    /\ pos_at_drop' = it_pos
    /\ haystack' = <<>>
    /\ UNCHANGED <<driver_vars, s, needle, worker_vars, cancel_result, last_get, last_drain,
                   delivered, polls, sends_after_drop, scans_after_drop,
                   scanned_after_drop>>

\* AsyncSearch::cancel, first statement: drop(self.receiver). What is still
\* buffered is discarded with the channel.
cancel_drop ==
    /\ caller = "idle"
    /\ caller' = "join"
    /\ rx_alive' = FALSE
    /\ queue' = <<>>
    /\ pos_at_drop' = it_pos
    /\ UNCHANGED <<driver_vars, input_vars, worker_vars, cancel_result, last_get, last_drain,
                   delivered, polls, sends_after_drop, scans_after_drop,
                   scanned_after_drop>>

\* cancel_join with the join's result thrown away: always Ok.
cancel_join_swallows_panic ==
    /\ caller = "join"
    /\ worker = "exited"
    /\ caller' = "returned"
    /\ cancel_result' = "Ok"
    /\ UNCHANGED <<driver_vars, input_vars, worker_vars, queue, rx_alive, last_get, last_drain,
                   delivered, polls, ghost_vars>>

\* AsyncSearch::cancel, second statement: join_handle.join() returns once the
\* thread has ended; a panic of the thread becomes Err.
cancel_join ==
    /\ caller = "join"
    /\ worker = "exited"
    /\ caller' = "returned"
    /\ cancel_result' = IF panicked THEN "Err" ELSE "Ok"
    /\ UNCHANGED <<driver_vars, input_vars, worker_vars, queue, rx_alive, last_get, last_drain,
                   delivered, polls, ghost_vars>>

\* The session is dropped without cancel (as CurrentSearch::finish does when it
\* overwrites Searching): the Receiver is dropped with what it buffers, and the
\* JoinHandle is dropped, which detaches the thread; nobody joins it.
drop_session ==
    /\ caller = "idle"
    /\ caller' = "dropped"
    /\ rx_alive' = FALSE
    /\ queue' = <<>>
    /\ pos_at_drop' = it_pos
    /\ UNCHANGED <<driver_vars, input_vars, worker_vars, cancel_result, last_get, last_drain,
                   delivered, polls, sends_after_drop, scans_after_drop,
                   scanned_after_drop>>

\* ----------------------------------------------------------------- driver

\* The bits of SearchType::Bit8 .. Bit64.
BitsOf(search_type) ==
    CASE search_type = "Bit8" -> 8
      [] search_type = "Bit16" -> 16
      [] search_type = "Bit32" -> 32
      [] search_type = "Bit64" -> 64

\* input.replace(" ", "")
RemoveSpaces(str) ==
    LET NotSpace(c) == c # " " IN SelectSeq(str, NotSpace)

\* str.replace("0x", ""): every non-overlapping "0x", from the left.
RECURSIVE Remove0x(_)
Remove0x(str) ==
    IF str = <<>> THEN <<>>
    ELSE IF Len(str) >= 2 /\ str[1] = "0" /\ str[2] = "x"
         THEN Remove0x(SubSeq(str, 3, Len(str)))
    ELSE <<Head(str)>> \o Remove0x(Tail(str))

\* The loop of the Bytes branch from byte offset i on: &cleaned[i..i + 2] panics
\* when one of its ends is inside a char; u8::from_str_radix(hex_byte, 16) that
\* fails is "Invalid hex byte".
RECURSIVE HexBytes(_, _, _)
HexBytes(cleaned, i, bytes) ==
    IF i >= ByteLen(cleaned) THEN Ok(bytes)
    ELSE IF ~is_char_boundary(cleaned, i) \/ ~is_char_boundary(cleaned, i + 2)
         THEN Panicked
    ELSE LET hex_byte == SubSeq(cleaned, CharsIn(cleaned, i) + 1,
                                CharsIn(cleaned, i + 2))
             byte == from_str_radix(hex_byte, 16, FALSE, 8)
         IN  IF byte.ok THEN HexBytes(cleaned, i + 2, Append(bytes, byte.v[1]))
             ELSE Err("Invalid hex byte")

\* What parse_search_input gives: the outcome, and with Ok the Needle it built and
\* the owned needle.
ParseOk(nd) == [ok |-> TRUE, kind |-> "Ok", s |-> nd, needle |-> NeedleOwnedFrom(nd)]
ParseErr(kind) == [ok |-> FALSE, kind |-> kind, s |-> NeedleBytes(<<>>), needle |-> <<>>]

\* BinarySearchApp::parse_search_input on the settings of the control panel. The
\* Bytes branch makes the owned needle with from_data, which is what the owned
\* needle of Needle::Bytes is.
parse_search_input(panel) ==
    LET input == panel.search_input
    IN  CASE panel.search_type \in {"Bit8", "Bit16", "Bit32", "Bit64"} ->
               LET bits == BitsOf(panel.search_type)
                   value == IntParse(input, panel.is_signed, bits)
               IN  IF value.ok
                   THEN ParseOk(NeedleInt(panel.is_signed, bits,
                                          IF bits = 8 THEN "NA" ELSE panel.endianness,
                                          value.v))
                   ELSE ParseErr(value.kind)
          [] panel.search_type = "String" -> ParseOk(NeedleStr(as_bytes(input)))
          [] panel.search_type = "Bytes" ->
               LET cleaned == Remove0x(RemoveSpaces(input))
                   bytes == HexBytes(cleaned, 0, <<>>)
               IN  IF ByteLen(cleaned) % 2 # 0
                   THEN ParseErr("Hex string must have even number of characters")
                   ELSE IF bytes.ok THEN ParseOk(NeedleBytes(bytes.v))
                   ELSE ParseErr(bytes.kind)

\* usize::MAX, which a usize subtraction that wraps below 0 gives for -1. It is
\* held as the largest integer of the model checker and stands for 2^64 - 1; all
\* that is used of it is that it is above every offset into a file.
USIZE_MAX == 2147483647

\* DataInspector::render for the selection and the file of this frame, every
\* outcome: the guard on an offset at or past the end of the data panics;
\* otherwise the i64 row is made from the bytes at the lower end of the
\* selection on (from no bytes without a selection).
RenderOutcomes(sel, file, inspector) ==
    LET data == IF file.some THEN file.data ELSE <<>>
        data_slice == IF sel.some THEN SubSeq(data, lower(sel) + 1, Len(data)) ELSE <<>>
    IN  IF sel.some /\ lower(sel) >= Len(data)
        THEN {FormatPanic("Impossible!")}
        ELSE intepret_i64_row(data_slice, inspector.radix, inspector.little_endian)

\* The end of a frame: the data inspector is rendered with its settings of this
\* frame, which ends the UI thread when it panics.
RenderFrame(sel, file, inspector) ==
    \E out \in RenderOutcomes(sel, file, inspector) :
        IF out.panic = "none"
        THEN /\ inspected' = out.text
             /\ UNCHANGED <<driver, ui_panic>>
        ELSE /\ driver' = "panicked"
             /\ ui_panic' = out.panic
             /\ UNCHANGED inspected

\* A clear_results that leaves the rows in the panel.
clear_results_keeps(list) == list

\* SearchResultsPanel::clear_results
clear_results(list) == <<>>

\* add_search_results that keeps the index the driver gave each entry.
add_search_results_keeps_index(list, rs) == list \o rs

\* SearchResultsPanel::add_search_results: the entries are renumbered from the
\* length of the list on, and appended.
add_search_results(list, rs) ==
    list \o [i \in 1..Len(rs) |-> [index |-> Len(list) + i - 1, offset |-> rs[i].offset]]

\* AsyncSearch::create_from_owned as the driver calls it: a new session on the
\* file's bytes, which takes the place of the one before.
CreateFromOwned(file, nd, owned) ==
    /\ haystack' = file
    /\ s' = nd
    /\ needle' = owned
    /\ it_pos' = 0
    /\ n' = None
    /\ queue' = <<>>
    /\ tx_alive' = TRUE
    /\ rx_alive' = TRUE
    /\ worker' = "spawned"
    /\ panicked' = FALSE
    /\ caller' = "idle"
    /\ cancel_result' = "none"
    /\ last_get' = "none"
    /\ last_drain' = "none"
    /\ delivered' = <<>>
    /\ polls' = 0
    /\ sends_after_drop' = 0
    /\ scans_after_drop' = 0
    /\ scanned_after_drop' = 0
    /\ pos_at_drop' = None

\* search.cancel() up to its join: the Receiver is dropped.
CancelDrop ==
    /\ caller' = "join"
    /\ rx_alive' = FALSE
    /\ queue' = <<>>
    /\ pos_at_drop' = it_pos
    /\ UNCHANGED <<input_vars, worker_vars, cancel_result, last_get, last_drain,
                   delivered, polls, sends_after_drop, scans_after_drop,
                   scanned_after_drop>>

\* The user edits the search controls (SearchControlPanel::render without a click
\* on Search).
edit_search_controls(controls) ==
    /\ driver = "idle"
    /\ \E panel \in controls : search_control_panel' = panel
    /\ UNCHANGED <<input_vars, worker_vars, queue, rx_alive, caller_vars, ghost_vars,
                   file_data, current_search, search_results, driver, results,
                   parse_result>>
    /\ last_click' = "none"
    /\ UNCHANGED view_vars

\* As open_file, but the results panel keeps its rows.
open_file_keeps_results(files) ==
    /\ driver = "idle"
    /\ \E f \in files : file_data' = SomeFile(f)
    /\ UNCHANGED search_results
    /\ current_search' = CurrentSearchEmpty
    /\ IF current_search.tag = "Searching"
       THEN /\ CancelDrop
            /\ driver' = "open_join"
       ELSE UNCHANGED <<input_vars, worker_vars, queue, rx_alive, caller_vars,
                        ghost_vars, driver>>
    /\ UNCHANGED <<search_control_panel, results, parse_result>>
    /\ last_click' = "none"
    /\ selection' = NoSelection
    /\ inspected' = <<EOF_MSG>>
    /\ UNCHANGED <<data_inspector, ui_panic>>

\* update, the branch of a file that was opened: FilePanel::render has put the new
\* file in place; the results are cleared, current_search is taken, and a search
\* that was going on is cancelled, which waits in join.
open_file(files) ==
    /\ driver = "idle"
    /\ \E f \in files : file_data' = SomeFile(f)
    /\ search_results' = clear_results(search_results)
    /\ current_search' = CurrentSearchEmpty
    /\ IF current_search.tag = "Searching"
       THEN /\ CancelDrop
            /\ driver' = "open_join"
       ELSE UNCHANGED <<input_vars, worker_vars, queue, rx_alive, caller_vars,
                        ghost_vars, driver>>
    /\ UNCHANGED <<search_control_panel, results, parse_result>>
    /\ last_click' = "none"
    /\ selection' = NoSelection
    /\ inspected' = <<EOF_MSG>>
    /\ UNCHANGED <<data_inspector, ui_panic>>

\* perform_search up to the join of cancel, a search going on: the results are
\* cleared, current_search is taken and the search cancelled.
perform_search_cancel ==
    /\ driver = "idle"
    /\ current_search.tag = "Searching"
    /\ search_results' = clear_results(search_results)
    /\ current_search' = CurrentSearchEmpty
    /\ CancelDrop
    /\ driver' = "search_join"
    /\ UNCHANGED <<file_data, search_control_panel, results, parse_result>>
    /\ last_click' = "search"
    /\ UNCHANGED view_vars

\* The join of the driver's cancel returns once the worker thread has ended; its
\* result is thrown away. perform_search goes on, the file branch is done.
driver_join ==
    /\ driver \in {"search_join", "open_join"}
    /\ worker = "exited"
    /\ caller' = "returned"
    /\ cancel_result' = IF panicked THEN "Err" ELSE "Ok"
    /\ driver' = IF driver = "search_join" THEN "search" ELSE "idle"
    /\ UNCHANGED <<input_vars, worker_vars, queue, rx_alive, last_get, last_drain,
                   delivered, polls, ghost_vars, file_data, search_control_panel,
                   current_search, search_results, results, parse_result>>
    /\ UNCHANGED <<last_click, view_vars>>

\* perform_search that leaves a search that is going on alone: no cancel, the new
\* session takes its place.
perform_search_without_cancel ==
    /\ driver = "idle"
    /\ search_results' = clear_results(search_results)
    /\ LET input == search_control_panel.search_input
           parsed == parse_search_input(search_control_panel)
       IN  IF ~file_data.some \/ input = <<>>
           THEN /\ current_search' = CurrentSearchEmpty
                /\ UNCHANGED <<driver, parse_result>>
                /\ UNCHANGED <<input_vars, worker_vars, queue, rx_alive, caller_vars,
                               ghost_vars>>
           ELSE /\ parse_result' = [ok |-> parsed.ok, kind |-> parsed.kind]
                /\ IF parsed.ok
                   THEN /\ CreateFromOwned(file_data.data, parsed.s, parsed.needle)
                        /\ current_search' = Searching(byte_length(parsed.needle))
                        /\ driver' = "idle"
                   ELSE /\ current_search' = CurrentSearchEmpty
                        /\ driver' = IF parsed.kind = "panic" THEN "panicked" ELSE "idle"
                        /\ UNCHANGED <<input_vars, worker_vars, queue, rx_alive,
                                       caller_vars, ghost_vars>>
    /\ UNCHANGED <<file_data, search_control_panel, results>>
    /\ last_click' = "search"
    /\ ui_panic' = IF driver' = "panicked" THEN "byte index is not a char boundary"
                 ELSE ui_panic
    /\ UNCHANGED <<selection, data_inspector, inspected>>

\* perform_search that makes the session before it looks at what the parse gave.
perform_search_creates_first ==
    /\ \/ driver = "idle" /\ current_search.tag # "Searching"
       \/ driver = "search"
    /\ search_results' = clear_results(search_results)
    /\ LET input == search_control_panel.search_input
           parsed == parse_search_input(search_control_panel)
       IN  IF ~file_data.some \/ input = <<>>
           THEN /\ current_search' = CurrentSearchEmpty
                /\ driver' = "idle"
                /\ UNCHANGED parse_result
                /\ UNCHANGED <<input_vars, worker_vars, queue, rx_alive, caller_vars,
                               ghost_vars>>
           ELSE /\ parse_result' = [ok |-> parsed.ok, kind |-> parsed.kind]
                /\ CreateFromOwned(file_data.data, parsed.s, parsed.needle)
                /\ current_search' = Searching(byte_length(parsed.needle))
                /\ driver' = IF parsed.kind = "panic" THEN "panicked" ELSE "idle"
    /\ UNCHANGED <<file_data, search_control_panel, results>>
    /\ last_click' = "search"
    /\ ui_panic' = IF driver' = "panicked" THEN "byte index is not a char boundary"
                 ELSE ui_panic
    /\ UNCHANGED <<selection, data_inspector, inspected>>

\* As perform_search, but the results are cleared and the search is forgotten only
\* once the file and the input have been found good.
perform_search_validates_first ==
    /\ \/ driver = "idle" /\ current_search.tag # "Searching"
       \/ driver = "search"
    /\ LET input == search_control_panel.search_input
           parsed == parse_search_input(search_control_panel)
       IN  IF ~file_data.some \/ input = <<>>
           THEN /\ UNCHANGED <<current_search, search_results>>
                /\ driver' = "idle"
                /\ UNCHANGED parse_result
                /\ UNCHANGED <<input_vars, worker_vars, queue, rx_alive, caller_vars,
                               ghost_vars>>
           ELSE /\ parse_result' = [ok |-> parsed.ok, kind |-> parsed.kind]
                /\ IF parsed.ok
                   THEN /\ search_results' = clear_results(search_results)
                        /\ CreateFromOwned(file_data.data, parsed.s, parsed.needle)
                        /\ current_search' = Searching(byte_length(parsed.needle))
                        /\ driver' = "idle"
                   ELSE /\ UNCHANGED <<current_search, search_results>>
                        /\ driver' = IF parsed.kind = "panic" THEN "panicked" ELSE "idle"
                        /\ UNCHANGED <<input_vars, worker_vars, queue, rx_alive,
                                       caller_vars, ghost_vars>>
    /\ UNCHANGED <<file_data, search_control_panel, results>>
    /\ last_click' = "search"
    /\ ui_panic' = IF driver' = "panicked" THEN "byte index is not a char boundary"
                 ELSE ui_panic
    /\ UNCHANGED <<selection, data_inspector, inspected>>

\* BinarySearchApp::perform_search with no search going on, or from the join of
\* its cancel on: the results are cleared and current_search is Empty; with no
\* file, an empty input or a parse error it returns; a parse that panics takes
\* the UI thread down; else it makes the session and current_search is Searching.
perform_search ==
    /\ \/ driver = "idle" /\ current_search.tag # "Searching"
       \/ driver = "search"
    /\ search_results' = clear_results(search_results)
    /\ LET input == search_control_panel.search_input
           parsed == parse_search_input(search_control_panel)
       IN  IF ~file_data.some \/ input = <<>>
           THEN /\ current_search' = CurrentSearchEmpty
                /\ driver' = "idle"
                /\ UNCHANGED parse_result
                /\ UNCHANGED <<input_vars, worker_vars, queue, rx_alive, caller_vars,
                               ghost_vars>>
           ELSE /\ parse_result' = [ok |-> parsed.ok, kind |-> parsed.kind]
                /\ IF parsed.ok
                   THEN /\ CreateFromOwned(file_data.data, parsed.s, parsed.needle)
                        /\ current_search' = Searching(byte_length(parsed.needle))
                        /\ driver' = "idle"
                   ELSE /\ current_search' = CurrentSearchEmpty
                        /\ driver' = IF parsed.kind = "panic" THEN "panicked" ELSE "idle"
                        /\ UNCHANGED <<input_vars, worker_vars, queue, rx_alive,
                                       caller_vars, ghost_vars>>
    /\ UNCHANGED <<file_data, search_control_panel, results>>
    /\ last_click' = "search"
    /\ ui_panic' = IF driver' = "panicked" THEN "byte index is not a char boundary"
                 ELSE ui_panic
    /\ UNCHANGED <<selection, data_inspector, inspected>>

\* update_search_results that leaves the loop at the cap without keeping the
\* offset it has just received.
update_search_results_drops_at_cap ==
    /\ driver \in {"idle", "polling"}
    /\ current_search.tag = "Searching"
    /\ Poll
    /\ LET got == TryRecv(queue, tx_alive)
           pushed == Append(results, [index |-> Len(results), offset |-> Head(queue)])
           capped == got = "Ok" /\ Len(pushed) >= MAX_RESULTS_PER_FRAME
           batch == IF got = "Ok" /\ ~capped THEN pushed ELSE results
           more == got = "Ok" /\ ~capped
       IN  /\ IF more
              THEN /\ driver' = "polling"
                   /\ results' = batch
                   /\ UNCHANGED search_results
              ELSE /\ driver' = "idle"
                   /\ results' = <<>>
                   /\ search_results' =
                          IF batch = <<>> THEN search_results
                          ELSE add_search_results(search_results, batch)
           /\ IF got = "Finished"
              THEN /\ current_search' = Finished(current_search.len)
                   /\ caller' = "dropped"
                   /\ rx_alive' = FALSE
                   /\ pos_at_drop' = it_pos
              ELSE UNCHANGED <<current_search, caller, rx_alive, pos_at_drop>>
    /\ UNCHANGED <<input_vars, worker_vars, cancel_result, last_drain,
                   sends_after_drop, scans_after_drop, scanned_after_drop, file_data,
                   search_control_panel, parse_result>>
    /\ last_click' = "none"
    /\ UNCHANGED view_vars

\* One try_get of the loop of BinarySearchApp::update_search_results, a search
\* going on: an offset is pushed with the frame's running index, and the loop
\* goes on below the cap; Pending ends the loop; Finished calls
\* current_search.finish(), which drops the session, and ends the loop. When the
\* loop ends the frame's results, if any, go to the results panel.
update_search_results ==
    /\ driver \in {"idle", "polling"}
    /\ current_search.tag = "Searching"
    /\ Poll
    /\ LET got == TryRecv(queue, tx_alive)
           batch == IF got = "Ok"
                    THEN Append(results, [index |-> Len(results), offset |-> Head(queue)])
                    ELSE results
           more == got = "Ok" /\ Len(batch) < MAX_RESULTS_PER_FRAME
       IN  /\ IF more
              THEN /\ driver' = "polling"
                   /\ results' = batch
                   /\ UNCHANGED search_results
              ELSE /\ driver' = "idle"
                   /\ results' = <<>>
                   /\ search_results' =
                          IF batch = <<>> THEN search_results
                          ELSE add_search_results(search_results, batch)
           /\ IF got = "Finished"
              THEN /\ current_search' = Finished(current_search.len)
                   /\ caller' = "dropped"
                   /\ rx_alive' = FALSE
                   /\ pos_at_drop' = it_pos
              ELSE UNCHANGED <<current_search, caller, rx_alive, pos_at_drop>>
    /\ UNCHANGED <<input_vars, worker_vars, cancel_result, last_drain,
                   sends_after_drop, scans_after_drop, scanned_after_drop, file_data,
                   search_control_panel, parse_result>>
    /\ last_click' = "none"
    /\ UNCHANGED view_vars

\* update, a click on Go in a row of the results panel: the match on
\* current_search is todo!() for Empty and otherwise selects sel ..= sel + len - 1.
\* The subtraction is on usize: below 0 it panics where overflow is checked and
\* wraps where it is not. The frame ends with the data inspector.
select_result ==
    /\ driver = "idle"
    /\ \E k \in 1..Len(search_results) :
          LET sel == search_results[k].offset
              len == current_search.len
          IN  IF current_search.tag = "Empty"
              THEN /\ driver' = "panicked"
                   /\ ui_panic' = "not yet implemented"
                   /\ UNCHANGED <<selection, inspected>>
              ELSE IF sel + len - 1 >= 0
              THEN /\ selection' = SelectionRange(sel, sel + len - 1)
                   /\ RenderFrame(selection', file_data, data_inspector)
              ELSE \/ /\ driver' = "panicked"
                      /\ ui_panic' = "attempt to subtract with overflow"
                      /\ UNCHANGED <<selection, inspected>>
                   \/ /\ selection' = SelectionRange(sel, USIZE_MAX)
                      /\ RenderFrame(selection', file_data, data_inspector)
    /\ last_click' = "none"
    /\ UNCHANGED <<input_vars, worker_vars, queue, rx_alive, caller_vars, ghost_vars,
                   file_data, search_control_panel, current_search, search_results,
                   results, parse_result, data_inspector>>

\* HexViewer::render, a click on a byte or a drag over one: only the bytes of the
\* file are drawn, so the offset is inside it; a click selects the byte, a drag
\* moves the end of the selection. The frame ends with the data inspector.
hex_viewer_select ==
    /\ driver = "idle"
    /\ file_data.some
    /\ \E off \in 0..(Len(file_data.data) - 1) :
          \/ selection' = SelectionNew(off)
          \/ /\ selection.some
             /\ selection' = [selection EXCEPT !.end = off]
    /\ RenderFrame(selection', file_data, data_inspector)
    /\ last_click' = "none"
    /\ UNCHANGED <<input_vars, worker_vars, queue, rx_alive, caller_vars, ghost_vars,
                   file_data, search_control_panel, current_search, search_results,
                   results, parse_result, data_inspector>>

\* A frame in which the user changes the byte order or the radix of the data
\* inspector, or nothing: the inspector is rendered.
data_inspector_render(settings) ==
    /\ driver = "idle"
    /\ data_inspector' \in settings
    /\ RenderFrame(selection, file_data, data_inspector')
    /\ last_click' = "none"
    /\ UNCHANGED <<input_vars, worker_vars, queue, rx_alive, caller_vars, ghost_vars,
                   file_data, search_control_panel, current_search, search_results,
                   results, parse_result, selection>>

\* ------------------------------------------------------------ specification

Worker == worker_start \/ worker_next \/ worker_send \/ worker_exit

Next ==
    \/ worker_start
    \/ worker_next
    \/ worker_send
    \/ worker_exit
    \/ worker_panic
    \/ try_get
    \/ drain_call
    \/ drain_loop
    \/ cancel_drop
    \/ cancel_join

Spec == Init /\ [][Next]_vars

\* The scheduler runs a runnable thread: the worker keeps taking steps, and a join
\* whose thread has ended returns.
FairSpec == Spec /\ WF_vars(Worker) /\ WF_vars(cancel_join)

\* The caller's polls: try_get, and the try_get of drain's loop.
Polling == try_get \/ drain_loop

\* The worker thread is scheduled, and the caller keeps polling for as long as it
\* holds the session.
PollingSpec == Spec /\ WF_vars(Worker) /\ WF_vars(Polling)

\* The caller's thread runs: a drain that has been entered keeps taking the turns
\* of its loop. Nothing is assumed about the worker.
DrainSpec == Spec /\ WF_vars(drain_loop)

\* The session as the driver uses it: the caller polls with try_get and in the
\* end drops the session without cancel; the worker thread, detached or not, is
\* scheduled.
DropNext ==
    \/ worker_start
    \/ worker_next
    \/ worker_send
    \/ worker_exit
    \/ worker_panic
    \/ try_get
    \/ drop_session

DropSpec == Init /\ [][DropNext]_vars /\ WF_vars(Worker)

\* The session from the call of create on.
CreateNext == create \/ Next

CreateSpec == CreateInit /\ [][CreateNext]_vars

\* The conversion of a numeric needle alone: create is called and returns.
EncSpec == EncInit /\ [][create]_vars

\* The conversion of a needle of any variant.
NeedleSpec == AnyNeedleInit /\ [][create]_vars

\* The files the user opens: the empty file, a run of MaxHay bytes 1, and a file
\* of three different bytes.
DriverFiles == {<<>>, [k \in 1..MaxHay |-> 1], <<0, 1, 49>>}

Panel(search_type, is_signed, endianness, search_input) ==
    [search_type |-> search_type, search_input |-> search_input,
     endianness |-> endianness, encoding |-> "UTF8", is_signed |-> is_signed]

\* The settings the user gives the search controls: inputs that parse (to needles
\* that occur in the files and to one that does not), an empty input, inputs that
\* fail to parse, and one on which the parse panics.
DriverControls ==
    {Panel("Bit8", FALSE, "LE", <<"1">>),
     Panel("Bytes", FALSE, "LE", <<"0", "1", " ", "0", "1">>),
     Panel("String", FALSE, "LE", <<"1">>),
     Panel("Bit8", FALSE, "LE", <<>>),
     Panel("Bit8", TRUE, "LE", <<"1", "2", "8">>),
     Panel("Bytes", FALSE, "LE", <<"0", "1", "0">>),
     Panel("Bytes", FALSE, "LE", <<"0", "g">>),
     Panel("Bit32", FALSE, "LE", <<"1", "U+00E9">>)}

\* The application starts: BinarySearchApp::default(), no session yet.
DriverInit ==
    /\ haystack = <<>>
    /\ s = NeedleBytes(<<>>)
    /\ NoSession
    /\ AppDefault

\* The frames of the application: the UI thread polls the search going on, and
\* handles a file that was opened, edits of the search controls and clicks on
\* Search; the worker thread of the session runs beside it.
DriverNext ==
    \/ update_search_results
    \/ open_file(DriverFiles)
    \/ edit_search_controls(DriverControls)
    \/ perform_search_cancel
    \/ driver_join
    \/ perform_search
    \/ worker_start
    \/ worker_next
    \/ worker_send
    \/ worker_exit
    \/ worker_panic

DriverSpec == DriverInit /\ [][DriverNext]_vars

\* The files and the settings of the frames in which results and bytes are
\* selected: the empty file and a file of MaxHay - 1 bytes; inputs that give a
\* one-byte needle, no needle, and the needle of a Bytes input without any digit.
ViewFiles == {<<>>, [k \in 1..(MaxHay - 1) |-> IF k = 1 THEN 1 ELSE 0]}

ViewControls ==
    {Panel("Bit8", FALSE, "LE", <<"1">>),
     Panel("Bit8", FALSE, "LE", <<"g">>),
     Panel("Bytes", FALSE, "LE", <<" ">>),
     Panel("Bytes", FALSE, "LE", <<"0", "x">>)}

\* The frames of the application, the selections of results and bytes included.
ViewNext ==
    \/ update_search_results
    \/ open_file(ViewFiles)
    \/ edit_search_controls(ViewControls)
    \/ perform_search_cancel
    \/ driver_join
    \/ perform_search
    \/ select_result
    \/ hex_viewer_select
    \/ data_inspector_render({DataInspectorNew})
    \/ worker_start
    \/ worker_next
    \/ worker_send
    \/ worker_exit
    \/ worker_panic

ViewSpec == DriverInit /\ [][ViewNext]_vars

\* The data inspector on the first byte of a file of eight bytes. The files are
\* the patterns at the edges of i64 in both byte orders: a first and a last byte
\* of 0, 1, 127, 128 or 255 around six bytes of 0 or six of 255; the settings are
\* both byte orders with each radix.
InspectFiles ==
    {<<first>> \o [k \in 1..6 |-> mid] \o <<last>> :
        first \in {0, 1, 127, 128, 255}, mid \in {0, 255}, last \in {0, 1, 127, 128, 255}}

InspectSettings ==
    [little_endian : BOOLEAN, radix : {"Decimal", "Hexadecimal", "Binary", "Octal"}]

InspectInit ==
    /\ haystack = <<>>
    /\ s = NeedleBytes(<<>>)
    /\ NoSession
    /\ \E f \in InspectFiles : file_data = SomeFile(f)
    /\ search_control_panel = SearchControlPanelNew
    /\ current_search = CurrentSearchEmpty
    /\ search_results = <<>>
    /\ driver = "idle"
    /\ results = <<>>
    /\ parse_result = NotParsed
    /\ last_click = "none"
    /\ selection = SelectionNew(0)
    /\ data_inspector = DataInspectorNew
    /\ inspected = NotInspected
    /\ ui_panic = "none"

InspectSpec == InspectInit /\ [][data_inspector_render(InspectSettings)]_vars

\* The chars the input texts are made of.
Alphabet == {" ", "-", "+", "0", "1", "9", "f", "F", "x", "X", "b", "o", "g", "U+00E9"}

\* The literals of the tests of IntParser, and the values at both edges of each
\* type in the four bases.
ListedLiterals ==
    {<<"2", "5", "5">>,
     <<"0", "x", "F", "F">>,
     <<"0", "b", "1", "1", "1", "1", "1", "1", "1", "1">>,
     <<"0", "o", "3", "7", "7">>,
     <<"2", "5", "6">>,
     <<"0", "x", "1", "0", "0">>,
     <<"0", "b", "1", "0", "0", "0", "0", "0", "0", "0", "0">>,
     <<"0", "o", "4", "0", "0">>,
     <<"1", "2", "7">>,
     <<"0", "x", "7", "F">>,
     <<"0", "b", "1", "1", "1", "1", "1", "1", "1">>,
     <<"0", "o", "1", "7", "7">>,
     <<"1", "2", "8">>,
     <<"0", "x", "8", "0">>,
     <<"0", "b", "1", "0", "0", "0", "0", "0", "0", "0">>,
     <<"0", "o", "2", "0", "0">>,
     <<"-", "1", "2", "8">>,
     <<"-", "1", "2", "9">>,
     <<"0", "x", "-", "8", "0">>,
     <<"6", "5", "5", "3", "5">>,
     <<"0", "x", "F", "F", "F", "F">>,
     <<"0", "b", "1", "1", "1", "1", "1", "1", "1", "1", "1", "1", "1", "1", "1", "1", "1", "1">>,
     <<"0", "o", "1", "7", "7", "7", "7", "7">>,
     <<"6", "5", "5", "3", "6">>,
     <<"0", "x", "1", "0", "0", "0", "0">>,
     <<"0", "b", "1", "0", "0", "0", "0", "0", "0", "0", "0", "0", "0", "0", "0", "0", "0", "0", "0">>,
     <<"0", "o", "2", "0", "0", "0", "0", "0">>,
     <<"3", "2", "7", "6", "7">>,
     <<"0", "x", "7", "F", "F", "F">>,
     <<"0", "b", "1", "1", "1", "1", "1", "1", "1", "1", "1", "1", "1", "1", "1", "1", "1">>,
     <<"0", "o", "7", "7", "7", "7", "7">>,
     <<"3", "2", "7", "6", "8">>,
     <<"0", "x", "8", "0", "0", "0">>,
     <<"0", "b", "1", "0", "0", "0", "0", "0", "0", "0", "0", "0", "0", "0", "0", "0", "0", "0">>,
     <<"0", "o", "1", "0", "0", "0", "0", "0">>,
     <<"-", "3", "2", "7", "6", "8">>,
     <<"-", "3", "2", "7", "6", "9">>,
     <<"0", "x", "-", "8", "0", "0", "0">>,
     <<"4", "2", "9", "4", "9", "6", "7", "2", "9", "5">>,
     <<"0", "x", "F", "F", "F", "F", "F", "F", "F", "F">>,
     <<"0", "b", "1", "1", "1", "1", "1", "1", "1", "1", "1", "1", "1", "1", "1", "1", "1", "1", "1", "1", "1", "1", "1", "1", "1", "1", "1", "1", "1", "1", "1", "1", "1", "1">>,
     <<"0", "o", "3", "7", "7", "7", "7", "7", "7", "7", "7", "7", "7">>,
     <<"4", "2", "9", "4", "9", "6", "7", "2", "9", "6">>,
     <<"0", "x", "1", "0", "0", "0", "0", "0", "0", "0", "0">>,
     <<"0", "b", "1", "0", "0", "0", "0", "0", "0", "0", "0", "0", "0", "0", "0", "0", "0", "0", "0", "0", "0", "0", "0", "0", "0", "0", "0", "0", "0", "0", "0", "0", "0", "0", "0">>,
     <<"0", "o", "4", "0", "0", "0", "0", "0", "0", "0", "0", "0", "0">>,
     <<"2", "1", "4", "7", "4", "8", "3", "6", "4", "7">>,
     <<"0", "x", "7", "F", "F", "F", "F", "F", "F", "F">>,
     <<"0", "b", "1", "1", "1", "1", "1", "1", "1", "1", "1", "1", "1", "1", "1", "1", "1", "1", "1", "1", "1", "1", "1", "1", "1", "1", "1", "1", "1", "1", "1", "1", "1">>,
     <<"0", "o", "1", "7", "7", "7", "7", "7", "7", "7", "7", "7", "7">>,
     <<"2", "1", "4", "7", "4", "8", "3", "6", "4", "8">>,
     <<"0", "x", "8", "0", "0", "0", "0", "0", "0", "0">>,
     <<"0", "b", "1", "0", "0", "0", "0", "0", "0", "0", "0", "0", "0", "0", "0", "0", "0", "0", "0", "0", "0", "0", "0", "0", "0", "0", "0", "0", "0", "0", "0", "0", "0", "0">>,
     <<"0", "o", "2", "0", "0", "0", "0", "0", "0", "0", "0", "0", "0">>,
     <<"-", "2", "1", "4", "7", "4", "8", "3", "6", "4", "8">>,
     <<"-", "2", "1", "4", "7", "4", "8", "3", "6", "4", "9">>,
     <<"0", "x", "-", "8", "0", "0", "0", "0", "0", "0", "0">>,
     <<"1", "8", "4", "4", "6", "7", "4", "4", "0", "7", "3", "7", "0", "9", "5", "5", "1", "6", "1", "5">>,
     <<"0", "x", "F", "F", "F", "F", "F", "F", "F", "F", "F", "F", "F", "F", "F", "F", "F", "F">>,
     <<"0", "b", "1", "1", "1", "1", "1", "1", "1", "1", "1", "1", "1", "1", "1", "1", "1", "1", "1", "1", "1", "1", "1", "1", "1", "1", "1", "1", "1", "1", "1", "1", "1", "1", "1", "1", "1", "1", "1", "1", "1", "1", "1", "1", "1", "1", "1", "1", "1", "1", "1", "1", "1", "1", "1", "1", "1", "1", "1", "1", "1", "1", "1", "1", "1", "1">>,
     <<"0", "o", "1", "7", "7", "7", "7", "7", "7", "7", "7", "7", "7", "7", "7", "7", "7", "7", "7", "7", "7", "7", "7", "7">>,
     <<"1", "8", "4", "4", "6", "7", "4", "4", "0", "7", "3", "7", "0", "9", "5", "5", "1", "6", "1", "6">>,
     <<"0", "x", "1", "0", "0", "0", "0", "0", "0", "0", "0", "0", "0", "0", "0", "0", "0", "0", "0">>,
     <<"0", "b", "1", "0", "0", "0", "0", "0", "0", "0", "0", "0", "0", "0", "0", "0", "0", "0", "0", "0", "0", "0", "0", "0", "0", "0", "0", "0", "0", "0", "0", "0", "0", "0", "0", "0", "0", "0", "0", "0", "0", "0", "0", "0", "0", "0", "0", "0", "0", "0", "0", "0", "0", "0", "0", "0", "0", "0", "0", "0", "0", "0", "0", "0", "0", "0", "0">>,
     <<"0", "o", "2", "0", "0", "0", "0", "0", "0", "0", "0", "0", "0", "0", "0", "0", "0", "0", "0", "0", "0", "0", "0", "0">>,
     <<"9", "2", "2", "3", "3", "7", "2", "0", "3", "6", "8", "5", "4", "7", "7", "5", "8", "0", "7">>,
     <<"0", "x", "7", "F", "F", "F", "F", "F", "F", "F", "F", "F", "F", "F", "F", "F", "F", "F">>,
     <<"0", "b", "1", "1", "1", "1", "1", "1", "1", "1", "1", "1", "1", "1", "1", "1", "1", "1", "1", "1", "1", "1", "1", "1", "1", "1", "1", "1", "1", "1", "1", "1", "1", "1", "1", "1", "1", "1", "1", "1", "1", "1", "1", "1", "1", "1", "1", "1", "1", "1", "1", "1", "1", "1", "1", "1", "1", "1", "1", "1", "1", "1", "1", "1", "1">>,
     <<"0", "o", "7", "7", "7", "7", "7", "7", "7", "7", "7", "7", "7", "7", "7", "7", "7", "7", "7", "7", "7", "7", "7">>,
     <<"9", "2", "2", "3", "3", "7", "2", "0", "3", "6", "8", "5", "4", "7", "7", "5", "8", "0", "8">>,
     <<"0", "x", "8", "0", "0", "0", "0", "0", "0", "0", "0", "0", "0", "0", "0", "0", "0", "0">>,
     <<"0", "b", "1", "0", "0", "0", "0", "0", "0", "0", "0", "0", "0", "0", "0", "0", "0", "0", "0", "0", "0", "0", "0", "0", "0", "0", "0", "0", "0", "0", "0", "0", "0", "0", "0", "0", "0", "0", "0", "0", "0", "0", "0", "0", "0", "0", "0", "0", "0", "0", "0", "0", "0", "0", "0", "0", "0", "0", "0", "0", "0", "0", "0", "0", "0", "0">>,
     <<"0", "o", "1", "0", "0", "0", "0", "0", "0", "0", "0", "0", "0", "0", "0", "0", "0", "0", "0", "0", "0", "0", "0", "0">>,
     <<"-", "9", "2", "2", "3", "3", "7", "2", "0", "3", "6", "8", "5", "4", "7", "7", "5", "8", "0", "8">>,
     <<"-", "9", "2", "2", "3", "3", "7", "2", "0", "3", "6", "8", "5", "4", "7", "7", "5", "8", "0", "9">>,
     <<"0", "x", "-", "8", "0", "0", "0", "0", "0", "0", "0", "0", "0", "0", "0", "0", "0", "0", "0">>,
     <<"1", "2", "3">>,
     <<"0">>,
     <<"4", "2">>,
     <<"0", "x", "0">>,
     <<"0", "x", "a">>,
     <<"0", "X", "F", "F">>,
     <<"0", "b", "0">>,
     <<"0", "B", "1", "0", "1", "0">>,
     <<"0", "o", "0">>,
     <<"0", "O", "1", "2">>,
     <<"3", "0", "0">>,
     <<"a", "b", "c">>,
     <<"0", "x">>,
     <<"0", "b">>,
     <<"0", "o">>,
     <<"-", "1">>,
     <<"2", "0", "0">>,
     <<"-", "2", "0", "0">>,
     <<"1", "0", "0", "0", "0", "0">>,
     <<"5", "0", "0", "0", "0">>,
     <<"-", "5", "0", "0", "0", "0">>,
     <<"5", "0", "0", "0", "0", "0", "0", "0", "0", "0">>,
     <<"3", "0", "0", "0", "0", "0", "0", "0", "0", "0">>,
     <<"-", "3", "0", "0", "0", "0", "0", "0", "0", "0", "0">>,
     <<"2", "0", "0", "0", "0", "0", "0", "0", "0", "0", "0", "0", "0", "0", "0", "0", "0", "0", "0", "0">>,
     <<"1", "0", "0", "0", "0", "0", "0", "0", "0", "0", "0", "0", "0", "0", "0", "0", "0", "0", "0", "0">>,
     <<"-", "1", "0", "0", "0", "0", "0", "0", "0", "0", "0", "0", "0", "0", "0", "0", "0", "0", "0", "0", "0">>,
     <<"4", "5", "6">>,
     <<"-", "7", "8", "9">>,
     <<"0", "b", "1", "0", "1", "0">>,
     <<"0", "o", "1", "7">>,
     <<"+", "5">>,
     <<"-", "0">>,
     <<"0", "2", "5", "5">>,
     <<"0", "0", "x", "1">>,
     <<"9", "9", "9", "g">>}

\* One click on Search with a file open and a numeric search type: the input is a
\* text of up to MaxInputLen chars of Alphabet, or a listed literal as it is or
\* between white space.
ParseInit ==
    /\ haystack = <<>>
    /\ s = NeedleBytes(<<>>)
    /\ NoSession
    /\ file_data = SomeFile(<<>>)
    /\ \E search_type \in {"Bit8", "Bit16", "Bit32", "Bit64"}, is_signed \in BOOLEAN :
          \/ \E m \in 0..MaxInputLen : \E input \in [1..m -> Alphabet] :
                search_control_panel = Panel(search_type, is_signed, "LE", input)
          \/ \E lit \in ListedLiterals, w \in {<<>>, <<" ">>, <<"\t", "\n">>} :
                search_control_panel = Panel(search_type, is_signed, "LE", w \o lit \o w)
    /\ current_search = CurrentSearchEmpty
    /\ search_results = <<>>
    /\ driver = "idle"
    /\ results = <<>>
    /\ parse_result = NotParsed
    /\ last_click = "none"
    /\ selection = NoSelection
    /\ data_inspector = DataInspectorNew
    /\ inspected = NotInspected
    /\ ui_panic = "none"

ParseSpec == ParseInit /\ [][perform_search]_vars

\* The scenarios, with the worker scheduled and a caller that keeps polling.
ScenarioSpec ==
    ScenarioInit /\ [][CreateNext]_vars /\ WF_vars(Worker) /\ WF_vars(Polling)

TypeOK ==
    /\ haystack \in SeqsUpTo(Bytes, MaxHay)
    /\ needle \in SeqsUpTo(Bytes, MaxNeedle)
    /\ it_pos \in 0..(Len(haystack) + Max(1, Len(needle)))
    /\ n \in {None} \cup 0..Len(haystack)
    /\ worker \in {"spawned", "next", "send", "returned", "exited"}
    /\ caller \in {"idle", "drain", "join", "returned"}
    /\ cancel_result \in {"none", "Ok", "Err"}
    /\ last_get \in {"none", "Ok", "Pending", "Finished"}
    /\ last_drain \in {"none", "Pending", "Finished"}
    /\ polls \in 0..1
    /\ tx_alive = (worker \in {"spawned", "next", "send"})

\* ------------------------------------------------------------------ claims

\* haystack[i .. i + |needle|] == needle, the slice lying inside the haystack.
IsOccurrence(i) ==
    /\ 0 <= i
    /\ i + Len(needle) <= Len(haystack)
    /\ SubSeq(haystack, i + 1, i + Len(needle)) = needle

\* Every i with haystack[i .. i + |needle|] == needle, overlapping ones included.
AllOccurrences == {i \in 0..Len(haystack) : IsOccurrence(i)}

IsStrictlyIncreasing(q) == \A j, k \in 1..Len(q) : j < k => q[j] < q[k]

WorkerRunning == worker \in {"spawned", "next", "send"}

\* C1: for 1 <= |needle| <= |haystack| and a worker that did not fault, once
\* try_get has reported Finished the offsets delivered are all the occurrences of
\* the needle in the haystack, overlapping ones included.
C1_DeliversAllOccurrences ==
    ( /\ last_get = "Finished"
      /\ ~panicked
      /\ 1 <= Len(needle)
      /\ Len(needle) <= Len(haystack) )
    => Range(delivered) = AllOccurrences

\* C2: with an empty needle no try_get ever returns an offset.
C2_EmptyNeedleDeliversNothing ==
    needle = <<>> => delivered = <<>>

\* C3: a poll returns the buffered offset whenever one is buffered; it returns
\* Finished only with nothing buffered and the worker out of its loop, and Pending
\* only with nothing buffered and the worker still able to send.
C3_TryGetReportsChannelState ==
    [][ polls' # polls =>
          /\ queue # <<>> =>
                /\ last_get' = "Ok"
                /\ delivered' = Append(delivered, Head(queue))
                /\ queue' = Tail(queue)
          /\ last_get' = "Finished" => (queue = <<>> /\ ~WorkerRunning)
          /\ last_get' = "Pending" => (queue = <<>> /\ WorkerRunning)
          /\ last_get' = "Ok" => queue # <<>>
      ]_vars

\* C3 witness: Finished was reported after offsets that were still buffered when the
\* worker left were handed out.
C3_Witness ==
    /\ last_get = "Finished"
    /\ delivered # <<>>
    /\ rx_alive

\* C4: the offsets handed to the caller are strictly increasing.
C4_DeliveredStrictlyIncreasing == IsStrictlyIncreasing(delivered)

\* C4 witness: three offsets were delivered while the worker was still running.
C4_Witness ==
    /\ Len(delivered) >= 3
    /\ WorkerRunning

\* C5: every offset handed to the caller starts an occurrence of the needle that
\* lies inside the haystack.
C5_DeliveredAreOccurrences ==
    \A k \in 1..Len(delivered) : IsOccurrence(delivered[k])

\* C5 witness: an occurrence ending at the last byte of the haystack was delivered.
C5_Witness ==
    /\ needle # <<>>
    /\ \E k \in 1..Len(delivered) : delivered[k] + Len(needle) = Len(haystack)

\* The first occurrence at or after the position the iterator had when the
\* Receiver was dropped, None when there is none.
NextOccurrenceAtDrop ==
    LET S == {i \in AllOccurrences : i >= pos_at_drop}
    IN  IF S = {} THEN None ELSE SetMin(S)

\* The bytes from the iterator's position at the drop to the end of the haystack.
RemainingAtDrop == Max(0, Len(haystack) - pos_at_drop)

\* C6: once the Receiver is dropped the worker attempts at most one more send, and
\* after that failed send it is out of its loop.
C6_AtMostOneSendAfterDisconnect ==
    /\ sends_after_drop <= 1
    /\ sends_after_drop = 1 => ~WorkerRunning

\* C6 witness: the worker left on a failed send although a further occurrence was
\* still ahead of it.
C6_Witness ==
    /\ sends_after_drop = 1
    /\ worker = "exited"
    /\ ~panicked
    /\ \E i \in AllOccurrences : i >= it_pos

\* C7 as stated: after the Receiver is dropped the worker never goes over the whole
\* rest of the haystack; what it scans ends at the next occurrence.
C7_ScanAfterCancelEndsAtNextMatch ==
    (~rx_alive /\ scanned_after_drop > 0) =>
        /\ NextOccurrenceAtDrop # None
        /\ scanned_after_drop <= NextOccurrenceAtDrop + Len(needle) - pos_at_drop

\* C7 amended: after the Receiver is dropped the worker runs at most one more
\* it.next(); it goes over the haystack up to the end of the next occurrence when
\* there is one, and over the whole rest of the haystack when there is none.
C7_ScanAfterCancelBounded ==
    ~rx_alive =>
        /\ scans_after_drop <= 1
        /\ scanned_after_drop <= RemainingAtDrop
        /\ NextOccurrenceAtDrop # None =>
               scanned_after_drop <= NextOccurrenceAtDrop + Len(needle) - pos_at_drop
        /\ (NextOccurrenceAtDrop = None /\ scans_after_drop = 1) =>
               scanned_after_drop = RemainingAtDrop

\* C7 witness: cancel returned after the worker went over a rest of three or more
\* bytes that holds no occurrence.
C7_Witness ==
    /\ caller = "returned"
    /\ ~panicked
    /\ NextOccurrenceAtDrop = None
    /\ scanned_after_drop >= 3
    /\ scanned_after_drop = RemainingAtDrop

\* C8: cancel can be called whenever the caller holds the session; a cancel that
\* has dropped the Receiver eventually returns; when it has returned the worker
\* thread has ended, and the result is Ok unless the worker panicked.
C8_CancelReturns ==
    /\ [](caller = "idle" => ENABLED cancel_drop)
    /\ [](caller = "returned" =>
            /\ worker = "exited"
            /\ ~panicked => cancel_result = "Ok")
    /\ (caller = "join") ~> (caller = "returned")

\* C8 witness: cancel returned Ok after the worker was stopped by its failed send.
C8_Witness ==
    /\ caller = "returned"
    /\ cancel_result = "Ok"
    /\ sends_after_drop = 1

\* C9: cancel returns Err exactly when the worker panicked; a poll made after the
\* panic still returns the buffered offset when there is one and Finished
\* otherwise, and a drain that returns after the panic returns Finished.
C9_FaultReportedOnlyByCancel ==
    /\ [](caller = "returned" => (cancel_result = "Err") = panicked)
    /\ [](caller # "returned" => cancel_result = "none")
    /\ [][ (panicked /\ polls' # polls) =>
              IF queue # <<>>
              THEN /\ last_get' = "Ok"
                   /\ delivered' = Append(delivered, Head(queue))
              ELSE last_get' = "Finished"
       ]_vars
    /\ [][ (panicked /\ caller = "drain" /\ caller' = "idle") =>
              last_drain' = "Finished"
       ]_vars

\* C9 witness: offsets were delivered, the polls ended in Finished, and cancel
\* then returned Err.
C9_Witness ==
    /\ caller = "returned"
    /\ cancel_result = "Err"
    /\ delivered # <<>>
    /\ last_get = "Finished"

\* C10: whenever the caller holds the session a try_get can complete at once, a
\* drain can be entered, and every turn of drain's loop can complete at once,
\* whatever the worker is doing.
C10_TryGetNeverWaits ==
    /\ caller = "idle" => (ENABLED try_get /\ ENABLED drain_call)
    /\ caller = "drain" => ENABLED drain_loop

\* C10 witness: a try_get returned Pending before the worker took its first step.
C10_Witness ==
    /\ worker = "spawned"
    /\ last_get = "Pending"
    /\ caller = "idle"

\* C11: create returns without waiting: it can always complete, and in the step
\* in which it returns the one worker thread comes into being, not yet started,
\* with an empty channel; a thread comes into being in no other step, create is
\* never re-entered, and a poll made before the worker's first step yields Pending.
C11_CreateSpawnsOneWorkerAndReturns ==
    /\ [](caller = "start" => ENABLED create)
    /\ [][ /\ (caller = "start" /\ caller' # "start") =>
                /\ caller' = "idle"
                /\ worker = "none" /\ worker' = "spawned"
                /\ queue' = <<>> /\ delivered' = <<>>
                /\ tx_alive' /\ rx_alive'
           /\ (worker = "none" /\ worker' # "none") => caller = "start"
           /\ worker # "none" => worker' # "none"
           /\ caller # "start" => caller' # "start"
           /\ (worker = "spawned" /\ polls' # polls) =>
                (last_get' = "Pending" /\ delivered' = <<>>)
       ]_vars

\* C11 witness: the session was returned and both a try_get and a drain came back
\* with Pending before the worker took its first step.
C11_Witness ==
    /\ worker = "spawned"
    /\ caller = "idle"
    /\ last_get = "Pending"
    /\ last_drain = "Pending"
    /\ AllOccurrences # {}

\* C12: unless the session is cancelled the worker eventually exits and a caller
\* that keeps polling eventually gets Finished; once a poll has returned Finished
\* every later poll returns Finished and hands out no offset.
C12_EventuallyFinishedForGood ==
    /\ <>(~rx_alive \/ worker = "exited")
    /\ <>(~rx_alive \/ last_get = "Finished")
    /\ [][ (last_get = "Finished" /\ polls' # polls) =>
              (last_get' = "Finished" /\ delivered' = delivered)
       ]_vars

\* C12 witness: Finished was reported, after Pending had been reported to a drain
\* and offsets had been delivered, with the worker exited and the session held.
C12_Witness ==
    /\ last_get = "Finished"
    /\ last_drain = "Pending"
    /\ Len(delivered) >= 2
    /\ worker = "exited"
    /\ rx_alive

\* The session is Finished with nothing buffered: the Sender is dropped, the
\* channel is empty and the caller still holds the Receiver.
SessionFinished == rx_alive /\ ~tx_alive /\ queue = <<>>

\* C13: on a session that is Finished with nothing buffered, a turn of drain's
\* loop returns Finished at once without calling the callback and leaves the
\* channel and the worker as they were; the session stays Finished for as long as
\* it is held, so every repeated drain does the same.
C13_DrainOfFinishedIsNoOp ==
    /\ [][ (SessionFinished /\ polls' # polls) =>
              /\ last_get' = "Finished"
              /\ UNCHANGED <<queue, delivered, tx_alive, rx_alive, haystack, needle>>
              /\ caller = "drain" => (caller' = "idle" /\ last_drain' = "Finished")
       ]_vars
    /\ [][ (SessionFinished /\ rx_alive') => SessionFinished' ]_vars
    /\ [](SessionFinished /\ caller = "idle" => ENABLED drain_call)

\* C13 witness: a drain has already returned Finished to a session that delivered
\* offsets, and the next drain has been entered.
C13_Witness ==
    /\ SessionFinished
    /\ last_drain = "Finished"
    /\ last_get = "Finished"
    /\ caller = "drain"
    /\ delivered # <<>>

\* C14: a turn of drain's loop that finds an offset buffered hands exactly that
\* offset (the oldest) to the callback, removes it from the channel and loops; a
\* turn that finds none calls no callback and returns Pending while the worker
\* can still send, Finished otherwise; drain returns in no other way, and every
\* drain that is entered returns.
C14_DrainDeliversThenReturnsState ==
    /\ [][ (caller = "drain" /\ polls' # polls) =>
              IF queue # <<>>
              THEN /\ delivered' = Append(delivered, Head(queue))
                   /\ queue' = Tail(queue)
                   /\ caller' = "drain"
                   /\ last_drain' = last_drain
              ELSE /\ delivered' = delivered
                   /\ caller' = "idle"
                   /\ last_drain' = (IF WorkerRunning THEN "Pending" ELSE "Finished")
       ]_vars
    /\ [][ (caller = "drain" /\ caller' # "drain") =>
              (caller' = "idle" /\ polls' # polls /\ queue = <<>>)
       ]_vars
    /\ (caller = "drain") ~> (caller = "idle")

\* C14 witness: inside drain, the latest turn handed out an offset, two or more
\* have been delivered and the worker is still producing.
C14_Witness ==
    /\ caller = "drain"
    /\ last_get = "Ok"
    /\ Len(delivered) >= 2
    /\ queue # <<>>
    /\ WorkerRunning

\* C15: when the needle does not occur in the haystack (as whenever it is longer
\* than the haystack, and as for 0x00..0x0F with U8(0x10)) no offset is ever
\* delivered, no poll returns an offset, and unless the session is cancelled a
\* poll eventually returns Finished.
C15_AbsentNeedleDeliversNothing ==
    /\ []((caller # "start" /\ AllOccurrences = {}) =>
            (delivered = <<>> /\ queue = <<>> /\ last_get # "Ok"))
    /\ []((caller # "start" /\ Len(needle) > Len(haystack)) => AllOccurrences = {})
    /\ []((caller # "start" /\ s = SixteenNeedle /\ haystack = SixteenHaystack) =>
            (needle = <<16>> /\ AllOccurrences = {}))
    /\ []((caller = "idle" /\ AllOccurrences = {}) =>
            <>(~rx_alive \/ (last_get = "Finished" /\ delivered = <<>>)))

\* C15 witness: the session over 0x00..0x0F with U8(0x10) reported Finished with
\* nothing delivered, the worker having exited without a fault.
C15_Witness ==
    /\ haystack = SixteenHaystack
    /\ s = SixteenNeedle
    /\ last_get = "Finished"
    /\ delivered = <<>>
    /\ worker = "exited"
    /\ ~panicked

HelloScenario == haystack = HelloHaystack /\ s = HelloNeedle /\ caller # "start"

\* C16 as stated: in the "hello" scenario a caller that polls until the first
\* result that is no offset, Pending or Finished, has then collected 0 and 12.
C16_FirstNonOffsetMeansBothCollected ==
    (HelloScenario /\ ~panicked /\ rx_alive /\ last_get \in {"Pending", "Finished"})
        => delivered = <<0, 12>>

\* C16 amended: in the "hello" scenario the needle is the five bytes of "hello",
\* what has been delivered is always a prefix of 0, 12, and once a poll has
\* returned Finished (the worker not having faulted) it is exactly 0, 12; a poll
\* that returns Pending may come before either offset.
C16_HelloDeliversZeroThenTwelve ==
    HelloScenario =>
        /\ needle = <<104, 101, 108, 108, 111>>
        /\ AllOccurrences = {0, 12}
        /\ delivered \in {<<>>, <<0>>, <<0, 12>>}
        /\ (last_get = "Finished" /\ ~panicked) => delivered = <<0, 12>>

\* C16 witness: the "hello" session reported Finished after delivering 0 and 12.
C16_Witness ==
    /\ HelloScenario
    /\ last_get = "Finished"
    /\ delivered = <<0, 12>>
    /\ ~panicked

\* C17: after the session is dropped without cancel the Receiver is gone; the
\* worker attempts at most one more send, that send fails and takes it out of its
\* loop, and the worker thread eventually ends.
C17_DropAlsoStopsWorker ==
    /\ [](caller = "dropped" =>
            /\ ~rx_alive
            /\ sends_after_drop <= 1
            /\ sends_after_drop = 1 => ~WorkerRunning)
    /\ [][ (caller = "dropped" /\ worker = "send" /\ worker' # worker) =>
              worker' = "returned"
       ]_vars
    /\ (caller = "dropped") ~> (worker = "exited")

\* C17 witness: the session was dropped while the worker was running, and the
\* worker ended on its failed send with occurrences still ahead of it.
C17_Witness ==
    /\ caller = "dropped"
    /\ worker = "exited"
    /\ ~panicked
    /\ sends_after_drop = 1
    /\ \E i \in AllOccurrences : i >= it_pos

\* The needle s in the other byte order.
OtherEndian(nd) == [nd EXCEPT !.e = IF @ = "LE" THEN "BE" ELSE "LE"]

\* The bytes of the owned needle, least significant first.
NeedleLittleEndFirst == IF s.e = "BE" THEN Reverse(needle) ELSE needle

\* C18: once create has converted a numeric needle of any width, signedness and
\* byte order, the data inspector's reading of the needle bytes with the same
\* width, signedness and byte order is the needle's value.
C18_NumericRoundTrip ==
    (caller # "start" /\ IsNumeric(s)) => InterpretAs(s, needle) = s.v

\* C18 witness: a negative i64 in big-endian order was converted, its bytes are not
\* a palindrome, and the inspector reads the value back.
C18_Witness ==
    /\ caller = "idle"
    /\ s.kind = "I" /\ s.bits = 64 /\ s.e = "BE"
    /\ s.v[4] < 0
    /\ needle # Reverse(needle)
    /\ InterpretAs(s, needle) = s.v

\* C19: for a 16-, 32- or 64-bit needle the owned needle has bits/8 bytes, each in
\* 0..255; taken least significant first, bytes 2j and 2j+1 are the base-256
\* digits of the j-th 16-bit limb of the value (byte k is (v >> 8k) & 0xFF); the
\* big-endian encoding is the reverse of the little-endian encoding of the same
\* value; and U16 0x1234 gives [0x34, 0x12] little-endian, [0x12, 0x34] big-endian.
C19_FixedWidthInByteOrder ==
    (caller # "start" /\ IsNumeric(s) /\ s.bits # 8) =>
        /\ byte_length(needle) = s.bits \div 8
        /\ \A k \in 1..Len(needle) : needle[k] \in 0..255
        /\ \A j \in 1..(s.bits \div 16) :
              NeedleLittleEndFirst[2 * j - 1] + 256 * NeedleLittleEndFirst[2 * j]
                  = s.v[j] % 65536
        /\ needle = Reverse(NeedleOwnedFrom(OtherEndian(s)))
        /\ s = NeedleInt(FALSE, 16, "LE", <<4660>>) => needle = <<52, 18>>
        /\ s = NeedleInt(FALSE, 16, "BE", <<4660>>) => needle = <<18, 52>>

\* C19 witness: U16(LittleEndian, 0x1234) was converted to [0x34, 0x12].
C19_Witness ==
    /\ caller = "idle"
    /\ s = NeedleInt(FALSE, 16, "LE", <<4660>>)
    /\ needle = <<52, 18>>

\* The unsigned needle of the same width and byte order whose value is that of
\* the signed needle nd modulo 2^bits.
UnsignedOf(nd) ==
    NeedleInt(FALSE, nd.bits, nd.e,
              [nd.v EXCEPT ![Len(nd.v)] = @ % (IF nd.bits = 8 THEN 256 ELSE 65536)])

\* C20: a signed needle of width w is converted to the bytes the unsigned needle
\* of value v mod 2^w has in the same byte order; I8(v) is converted to the one
\* byte v mod 256, and I8(-1) to 0xFF.
C20_SignedIsTwosComplement ==
    (caller # "start" /\ s.kind = "I") =>
        /\ needle = NeedleOwnedFrom(UnsignedOf(s))
        /\ s.bits = 8 => needle = <<s.v[1] % 256>>
        /\ s = NeedleInt(TRUE, 8, "NA", <<-1>>) => needle = <<255>>

\* C20 witness: I8(-1) was converted to the byte 0xFF.
C20_Witness ==
    /\ caller = "idle"
    /\ s = NeedleInt(TRUE, 8, "NA", <<-1>>)
    /\ needle = <<255>>

\* The length in bytes of the owned needle of each Needle variant.
ExpectedLength(nd) ==
    CASE nd.kind \in {"Bytes", "Str"} -> Len(nd.v)
      [] IsNumeric(nd) /\ nd.bits = 8 -> 1
      [] IsNumeric(nd) /\ nd.bits = 16 -> 2
      [] IsNumeric(nd) /\ nd.bits = 32 -> 4
      [] IsNumeric(nd) /\ nd.bits = 64 -> 8

\* C21: create can convert every Needle; the owned needle of a numeric variant
\* has 1, 2, 4 or 8 bytes by its width and is never empty; the owned needle of
\* Bytes and Str is the input byte for byte; byte_length is that length.
C21_EncodingTotalAndLengthExact ==
    /\ caller = "start" => ENABLED create
    /\ caller # "start" =>
          /\ byte_length(needle) = ExpectedLength(s)
          /\ \A k \in 1..Len(needle) : needle[k] \in 0..255
          /\ IsNumeric(s) => needle # <<>>
          /\ ~IsNumeric(s) => needle = s.v

\* C21 witness: a two-byte Str needle was converted to its own two bytes.
C21_Witness ==
    /\ caller = "idle"
    /\ s = NeedleStr(<<195, 104>>)
    /\ needle = <<195, 104>>
    /\ byte_length(needle) = 2

\* C25: no step of a session changes the haystack, and once create has made the
\* owned needle no step changes it either.
C25_HaystackAndNeedleReadOnly ==
    [][ /\ haystack' = haystack
        /\ caller # "start" => needle' = needle
      ]_vars

\* C25 witness: the worker scanned a two-byte needle to the end, the caller polled,
\* drained and cancelled, and haystack and needle are what create was given.
C25_Witness ==
    /\ caller = "returned"
    /\ cancel_result = "Ok"
    /\ last_drain # "none"
    /\ delivered # <<>>
    /\ Len(needle) = 2
    /\ needle = s.v
    /\ \E i \in 0..Len(haystack) : i \in Range(delivered) /\ IsOccurrence(i)

\* ---- IntParser, as perform_search called it (ParseSpec)

\* The input text of the control panel, and the type the parser was called for.
Input == search_control_panel.search_input

TypeSigned == search_control_panel.is_signed

TypeBits == BitsOf(search_control_panel.search_type)

\* perform_search has called the parser and the call returned or panicked.
Parsed == parse_result # NotParsed

\* What the call gave: the kind, and with Ok the value the needle was made of.
Outcome ==
    [ok |-> parse_result.ok, kind |-> parse_result.kind,
     v |-> IF parse_result.ok THEN s.v ELSE <<>>]

\* White-space strings put around a literal.
WhiteStrings == {<<>>, <<" ">>, <<"\t", "\n">>}

\* C29: white space around the input changes nothing: whatever the parser gave
\* for the input (a value, an error kind, or no return at all), it gives the same
\* for the input between any two white-space strings, decimal or prefixed.
C29_SurroundingWhitespaceIgnored ==
    Parsed =>
        \A w1 \in WhiteStrings, w2 \in WhiteStrings :
            IntParse(w1 \o Input \o w2, TypeSigned, TypeBits) = Outcome

\* C29 witness: " 0XFF " was parsed as a u8 and gave 255, as "0XFF" does.
C29_Witness ==
    /\ Parsed
    /\ Input = <<" ", "0", "X", "F", "F", " ">>
    /\ ~TypeSigned /\ TypeBits = 8
    /\ Outcome = Ok(<<255>>)
    /\ IntParse(<<"0", "X", "F", "F">>, FALSE, 8) = Ok(<<255>>)

\* ---- literals, read from their text alone

\* The text the parser works on.
Trimmed == trim(Input)

LitPrefixed(t) ==
    Len(t) >= 2 /\ t[1] = "0" /\ t[2] \in {"x", "X", "b", "B", "o", "O"}

LitRadix(t) ==
    IF ~LitPrefixed(t) THEN 10
    ELSE CASE t[2] \in {"x", "X"} -> 16
           [] t[2] \in {"b", "B"} -> 2
           [] t[2] \in {"o", "O"} -> 8

\* A decimal literal may carry a sign; a prefixed one is its prefix and digits.
LitNegative(t) == ~LitPrefixed(t) /\ t # <<>> /\ t[1] = "-"

LitDigits(t) ==
    IF LitPrefixed(t) THEN SubSeq(t, 3, Len(t))
    ELSE IF t # <<>> /\ t[1] \in {"-", "+"} THEN Tail(t)
    ELSE t

WellFormed(t) ==
    /\ LitDigits(t) # <<>>
    /\ \A k \in 1..Len(LitDigits(t)) : to_digit(LitDigits(t)[k], LitRadix(t)) # None

BarePrefix(t) == LitPrefixed(t) /\ Len(t) = 2

\* Text none of whose chars is a digit of any base, or a sign.
NonDigitText(t) ==
    /\ t # <<>>
    /\ ~LitPrefixed(t)
    /\ \A k \in 1..Len(t) : t[k] \notin {"-", "+"} /\ to_digit(t[k], 16) = None

\* The digits without their leading zeros ("0" for zero).
StripZeros(digits) ==
    LET nz == {k \in 1..Len(digits) : digits[k] # "0"}
    IN  IF nz = {} THEN <<"0">> ELSE SubSeq(digits, SetMin(nz), Len(digits))

\* a <= b for two digit strings without leading zeros: the shorter is the smaller,
\* and of two of one length the one with the smaller digit where they first differ.
DigitsLE(a, b) ==
    \/ Len(a) < Len(b)
    \/ /\ Len(a) = Len(b)
       /\ LET diff == {k \in 1..Len(a) : a[k] # b[k]}
          IN  diff = {} \/ to_digit(a[SetMin(diff)], 16) < to_digit(b[SetMin(diff)], 16)

\* The MAX of the unsigned type, and the MAX and the magnitude of the MIN of the
\* signed type, of `bits` bits, in decimal.
DecimalLimits(bits) ==
    CASE bits = 8 -> [umax |-> <<"2", "5", "5">>,
                       max |-> <<"1", "2", "7">>,
                       min |-> <<"1", "2", "8">>]
      [] bits = 16 -> [umax |-> <<"6", "5", "5", "3", "5">>,
                       max |-> <<"3", "2", "7", "6", "7">>,
                       min |-> <<"3", "2", "7", "6", "8">>]
      [] bits = 32 -> [umax |-> <<"4", "2", "9", "4", "9", "6", "7", "2", "9", "5">>,
                       max |-> <<"2", "1", "4", "7", "4", "8", "3", "6", "4", "7">>,
                       min |-> <<"2", "1", "4", "7", "4", "8", "3", "6", "4", "8">>]
      [] bits = 64 -> [umax |-> <<"1", "8", "4", "4", "6", "7", "4", "4", "0", "7", "3", "7", "0", "9", "5", "5", "1", "6", "1", "5">>,
                       max |-> <<"9", "2", "2", "3", "3", "7", "2", "0", "3", "6", "8", "5", "4", "7", "7", "5", "8", "0", "7">>,
                       min |-> <<"9", "2", "2", "3", "3", "7", "2", "0", "3", "6", "8", "5", "4", "7", "7", "5", "8", "0", "8">>]

\* How many binary digits the value of the digits has, in a base that is a power
\* of two.
BitLength(digits, radix) ==
    LET d == StripZeros(digits)
        per == CASE radix = 2 -> 1 [] radix = 8 -> 3 [] radix = 16 -> 4
        first == to_digit(d[1], 16)
        top == CASE first = 0 -> 0 [] first = 1 -> 1 [] first \in 2..3 -> 2
                 [] first \in 4..7 -> 3 [] first \in 8..15 -> 4
    IN  (Len(d) - 1) * per + top

\* The value of the well-formed literal t is in the range of the type.
InRange(t, signed, bits) ==
    IF LitRadix(t) = 10
    THEN LET d == StripZeros(LitDigits(t))
             lim == DecimalLimits(bits)
         IN  CASE ~signed /\ LitNegative(t) -> d = <<"0">>
               [] ~signed /\ ~LitNegative(t) -> DigitsLE(d, lim.umax)
               [] signed /\ LitNegative(t) -> DigitsLE(d, lim.min)
               [] signed /\ ~LitNegative(t) -> DigitsLE(d, lim.max)
    ELSE BitLength(LitDigits(t), LitRadix(t)) <= (IF signed THEN bits - 1 ELSE bits)

\* C26: the kind of error follows from the input: empty or white space only is
\* Empty; a bare prefix and text without any digit are Invalid; a well-formed
\* literal with a value outside the type is Overflow, except that a negative
\* literal for an unsigned type is Invalid.
C26_ErrorKindByInput ==
    Parsed =>
        /\ Trimmed = <<>> => Outcome = Err("Empty")
        /\ BarePrefix(Trimmed) => Outcome = Err("Invalid")
        /\ NonDigitText(Trimmed) => Outcome = Err("Invalid")
        /\ (WellFormed(Trimmed) /\ LitNegative(Trimmed) /\ ~TypeSigned)
               => Outcome = Err("Invalid")
        /\ (/\ WellFormed(Trimmed)
            /\ ~(LitNegative(Trimmed) /\ ~TypeSigned)
            /\ ~InRange(Trimmed, TypeSigned, TypeBits))
               => Outcome = Err("Overflow")

\* ---- values, written back as digits

\* The limbs of the quotient of the magnitude by the radix, and the remainder.
DivSmall(limbs, radix) ==
    LET len == Len(limbs)
        r[j \in 1..(len + 1)] ==
            IF j = len + 1 THEN 0 ELSE (r[j + 1] * 65536 + limbs[j]) % radix
    IN  [quot |-> [j \in 1..len |-> (r[j + 1] * 65536 + limbs[j]) \div radix],
         rem |-> r[1]]

IsZero(limbs) == \A j \in 1..Len(limbs) : limbs[j] = 0

RECURSIVE DigitsOf(_, _)
DigitsOf(limbs, radix) ==
    IF IsZero(limbs) THEN <<>>
    ELSE LET d == DivSmall(limbs, radix)
         IN  Append(DigitsOf(d.quot, radix), DigitChars[d.rem + 1])

\* The magnitude in the radix, without leading zeros ("0" for zero).
FormatRadix(limbs, radix) ==
    IF IsZero(limbs) THEN <<"0">> ELSE DigitsOf(limbs, radix)

IsNegativeValue(v) == v[Len(v)] < 0

\* The limbs of the magnitude of a value.
Magnitude(v, bits) ==
    IF ~IsNegativeValue(v) THEN v
    ELSE IF bits = 8 THEN <<0 - v[1]>>
    ELSE LET u == [v EXCEPT ![Len(v)] = @ + 65536]
             c[j \in 0..Len(u)] ==
                 IF j = 0 THEN 1 ELSE ((65535 - u[j]) + c[j - 1]) \div 65536
         IN  [j \in 1..Len(u) |-> ((65535 - u[j]) + c[j - 1]) % 65536]

\* What follows the prefix the first two chars of t make, or t itself.
AfterPrefix(t) == IF LitPrefixed(t) THEN SubSeq(t, 3, Len(t)) ELSE t

Unsigned(rest) == IF rest # <<>> /\ rest[1] \in {"-", "+"} THEN Tail(rest) ELSE rest

LowerCase(str) == [k \in 1..Len(str) |-> to_lowercase(str[k])]

\* C27: the first two chars of the trimmed input give the base (0x/0X 16, 0b/0B 2,
\* 0o/0O 8, anything else 10), for each of the eight types: a literal of digits of
\* that base with a value of the type is accepted, and a value the parser returns
\* is the value of the digits after the prefix read in that base, hex digits in
\* either case.
C27_BaseFromFirstTwoChars ==
    Parsed =>
        /\ (/\ WellFormed(Trimmed)
            /\ ~(LitNegative(Trimmed) /\ ~TypeSigned)
            /\ InRange(Trimmed, TypeSigned, TypeBits)) => Outcome.ok
        /\ Outcome.ok =>
              LET rest == AfterPrefix(Trimmed)
                  digits == Unsigned(rest)
              IN  /\ digits # <<>>
                  /\ FormatRadix(Magnitude(Outcome.v, TypeBits), LitRadix(Trimmed))
                         = StripZeros(LowerCase(digits))
                  /\ IsNegativeValue(Outcome.v) => rest[1] = "-"
                  /\ rest[1] = "-" => IsNegativeValue(Outcome.v) \/ IsZero(Outcome.v)
                  /\ Len(Outcome.v) = NLimbs(TypeBits)

\* C27 witness: "0o177777" was parsed as a u16 and gave 65535, and "0XFF" gives
\* the 255 that "0xff" gives.
C27_Witness ==
    /\ Parsed
    /\ Input = <<"0", "o", "1", "7", "7", "7", "7", "7">>
    /\ ~TypeSigned /\ TypeBits = 16
    /\ Outcome = Ok(<<65535>>)
    /\ LitRadix(Trimmed) = 8
    /\ parse_u8(<<"0", "X", "F", "F">>) = parse_u8(<<"0", "x", "f", "f">>)

\* C28 as stated: a decimal literal is accepted iff its value is in MIN..MAX of
\* the type, and outside it gives Overflow (MAX + 1 and MIN - 1 included); a
\* prefixed literal is a magnitude, so one with the top bit of a signed type set
\* gives Overflow.
C28_AcceptsExactlyTheRange ==
    (Parsed /\ WellFormed(Trimmed)) =>
        /\ Outcome.ok <=> InRange(Trimmed, TypeSigned, TypeBits)
        /\ ~InRange(Trimmed, TypeSigned, TypeBits) => Outcome = Err("Overflow")

\* C28: for a signed type, and for a literal without a minus sign for an unsigned
\* type, a literal is accepted iff its value is in MIN..MAX of the type, with the
\* value it has, and outside it gives Overflow; a prefixed literal is a magnitude,
\* so one with the top bit of a signed type set gives Overflow; for an unsigned
\* type a literal with a minus sign gives Invalid whatever its value, -0 and
\* MIN - 1 = -1 included.
C28_AcceptsTheRangeUnsignedMinusInvalid ==
    (Parsed /\ WellFormed(Trimmed)) =>
        IF LitNegative(Trimmed) /\ ~TypeSigned
        THEN Outcome = Err("Invalid")
        ELSE /\ Outcome.ok <=> InRange(Trimmed, TypeSigned, TypeBits)
             /\ ~InRange(Trimmed, TypeSigned, TypeBits) => Outcome = Err("Overflow")
             /\ Outcome.ok =>
                    /\ FormatRadix(Magnitude(Outcome.v, TypeBits), LitRadix(Trimmed))
                           = StripZeros(LowerCase(LitDigits(Trimmed)))
                    /\ IsNegativeValue(Outcome.v) => LitNegative(Trimmed)
             /\ (LitPrefixed(Trimmed) /\ TypeSigned
                 /\ BitLength(LitDigits(Trimmed), LitRadix(Trimmed)) = TypeBits)
                    => Outcome = Err("Overflow")

\* C28 witness: "-9223372036854775808", the MIN of i64, was accepted with its
\* value; one less overflows, as does "0x80" for i8, and "-1" for u8 is Invalid.
C28_Witness ==
    /\ Parsed
    /\ TypeSigned /\ TypeBits = 64
    /\ Input = <<"-", "9", "2", "2", "3", "3", "7", "2", "0", "3", "6", "8", "5",
                 "4", "7", "7", "5", "8", "0", "8">>
    /\ Outcome = Ok(<<0, 0, 0, -32768>>)
    /\ parse_i64(<<"-", "9", "2", "2", "3", "3", "7", "2", "0", "3", "6", "8", "5",
                   "4", "7", "7", "5", "8", "0", "9">>) = Err("Overflow")
    /\ parse_i8(<<"0", "x", "8", "0">>) = Err("Overflow")
    /\ parse_u8(<<"-", "1">>) = Err("Invalid")

\* ---- the driver (DriverSpec)

\* The step makes a session: AsyncSearch::create_from_owned spawns a worker.
SessionCreated == worker' = "spawned" /\ worker # "spawned"

\* The input of the control panel does not give a needle.
InputFails == ~parse_search_input(search_control_panel).ok

\* C22: while the input fails to parse (integer parse error, hex string of odd
\* length, invalid hex byte) no step makes a session or turns current_search into
\* Searching, and perform_search, having cancelled the search before, leaves
\* current_search other than Searching and the worker as it was.
C22_ParseFailureCreatesNoSession ==
    [][ /\ InputFails =>
              /\ ~SessionCreated
              /\ current_search'.tag = "Searching" => current_search.tag = "Searching"
        /\ (InputFails /\ driver = "search" /\ driver' # "search") =>
              /\ current_search'.tag # "Searching"
              /\ worker' = worker
        /\ SessionCreated => parse_result'.ok /\ current_search'.tag = "Searching"
      ]_vars

\* C22 witness: a search was going on when Search was clicked with an input that
\* overflows its type: the old session was cancelled and joined, the parse failed,
\* and there is no search.
C22_Witness ==
    /\ driver = "idle"
    /\ file_data.some
    /\ InputFails
    /\ parse_result = [ok |-> FALSE, kind |-> "Overflow"]
    /\ current_search = CurrentSearchEmpty
    /\ worker = "exited"
    /\ caller = "returned"

\* C23: the driver never has two workers that can deliver offsets. A session is
\* made only when no search is going on and the worker before it has dropped its
\* Sender; when perform_search had a search to replace, that search was cancelled
\* and its worker joined first. The handler of an opened file leaves no search and
\* no Receiver, and neither handler goes on from the join of its cancel before the
\* worker has ended.
C23_OneDeliveringWorkerAtATime ==
    [][ /\ SessionCreated =>
              /\ current_search.tag # "Searching"
              /\ ~tx_alive
              /\ worker \in {"none", "returned", "exited"}
        /\ (SessionCreated /\ driver = "search") =>
              /\ worker = "exited"
              /\ caller = "returned"
              /\ ~rx_alive
        /\ file_data' # file_data =>
              /\ current_search'.tag # "Searching"
              /\ worker # "none" => ~rx_alive'
        /\ (driver \in {"search_join", "open_join"} /\ driver' # driver) =>
              /\ worker = "exited"
              /\ ~tx_alive
        /\ (current_search.tag = "Searching" /\ current_search'.tag # "Searching"
            /\ current_search'.tag # "Finished") => ~rx_alive'
      ]_vars

\* C23 witness: Search was clicked while a search that had delivered an offset was
\* going on: the old worker was stopped by the cancel at a send and has been
\* joined, and perform_search is about to make the new session from an input that
\* parses.
C23_Witness ==
    /\ driver = "search"
    /\ current_search = CurrentSearchEmpty
    /\ worker = "exited"
    /\ caller = "returned"
    /\ cancel_result = "Ok"
    /\ sends_after_drop = 1
    /\ delivered # <<>>
    /\ ~tx_alive /\ ~rx_alive
    /\ ~InputFails
    /\ file_data.some

\* The offsets of a list of SearchResult, in the order of the list.
Offsets(list) == [k \in 1..Len(list) |-> list[k].offset]

\* The offsets memmem::find_iter yields from position p on.
RECURSIVE FindIterFrom(_, _, _)
FindIterFrom(hs, nd, p) ==
    LET m == FindIterNext(hs, nd, p)
    IN  IF m = None THEN <<>>
        ELSE <<m>> \o FindIterFrom(hs, nd, FindIterAdvance(nd, m))

\* The offset the worker has found and not yet sent.
InFlight == IF worker = "send" THEN <<n>> ELSE <<>>

\* C24: a frame takes at most MAX_RESULTS_PER_FRAME offsets, and the cap loses and
\* reorders nothing: the offsets in the results panel followed by those of the
\* frame under way are the offsets received, in order; what was not taken is
\* still queued, so that with what the worker has yet to send the sequence of the
\* session is whole; once the search is marked finished the panel holds the whole
\* sequence; and the search is marked finished only in the step whose try_get
\* returns Finished.
C24_FrameCapLosesNothing ==
    /\ [](current_search.tag \in {"Searching", "Finished"} =>
            /\ Offsets(search_results) \o Offsets(results) = delivered
            /\ Len(results) < MAX_RESULTS_PER_FRAME
            /\ (current_search.tag = "Searching" /\ ~panicked) =>
                  delivered \o queue \o InFlight \o FindIterFrom(haystack, needle, it_pos)
                      = FindIterFrom(haystack, needle, 0)
            /\ (current_search.tag = "Finished" /\ ~panicked) =>
                  Offsets(search_results) = FindIterFrom(haystack, needle, 0))
    /\ [][ /\ Len(search_results') <= Len(search_results) + MAX_RESULTS_PER_FRAME
           /\ (current_search'.tag = "Finished" /\ current_search.tag # "Finished") =>
                 /\ polls' # polls
                 /\ last_get' = "Finished"
                 /\ queue = <<>> /\ ~tx_alive
           /\ (current_search.tag = "Searching" /\ polls' # polls
               /\ last_get' # "Finished") => current_search'.tag = "Searching"
         ]_vars

\* C24 witness: a search with more offsets than the cap: the panel holds the
\* MAX_RESULTS_PER_FRAME offsets of one frame, and the others, which the worker
\* sent before it ended, are still queued in their order.
C24_Witness ==
    /\ current_search.tag = "Searching"
    /\ driver = "idle"
    /\ worker = "exited"
    /\ Len(search_results) = MAX_RESULTS_PER_FRAME
    /\ queue # <<>>
    /\ Offsets(search_results) \o queue = FindIterFrom(haystack, needle, 0)

\* C30: the k-th entry of the results panel, counted from 0, has index k, whatever
\* index the frame gave it, and while the panel shows a search its entries are
\* the first offsets received, in the order they were received.
C30_PanelIndexIsPosition ==
    /\ \A k \in 1..Len(search_results) : search_results[k].index = k - 1
    /\ current_search.tag \in {"Searching", "Finished"} =>
          /\ Len(search_results) <= Len(delivered)
          /\ Offsets(search_results) = SubSeq(delivered, 1, Len(search_results))
    /\ \A k \in 1..Len(results) : results[k].index = k - 1

\* C30 witness: the search is finished and the panel holds the offsets of more than
\* one frame, more than the cap of a frame; its last entry, the last byte of the
\* file, has the index of its position.
C30_Witness ==
    /\ current_search.tag = "Finished"
    /\ Len(search_results) > MAX_RESULTS_PER_FRAME
    /\ search_results[Len(search_results)].index = Len(search_results) - 1
    /\ search_results[Len(search_results)].offset = Len(haystack) - 1
    /\ Offsets(search_results) = delivered

\* C31: while current_search is Empty the results panel is empty, so a row is only
\* ever selected while a search is running or finished, and the todo!() of the
\* Empty branch of the selection is never run.
C31_EmptySearchHasNoRows ==
    /\ current_search = CurrentSearchEmpty => search_results = <<>>
    /\ ui_panic # "not yet implemented"

\* C31 witness: a row of a finished search has been selected, and the selection
\* starts at the offset of one of the rows of the panel.
C31_Witness ==
    /\ current_search.tag = "Finished"
    /\ selection.some
    /\ \E k \in 1..Len(search_results) : selection.start = search_results[k].offset
    /\ selection.end = selection.start + current_search.len - 1
    /\ ui_panic = "none"

\* C32: the needle of every session has at least one byte, so the length kept in
\* current_search while a search is running or finished is at least 1, and the
\* end sel + len - 1 of the selection of a row never goes below 0: the
\* subtraction neither panics nor wraps.
C32_SessionNeedleNonEmpty ==
    /\ current_search.tag \in {"Searching", "Finished"} => current_search.len >= 1
    /\ ui_panic # "attempt to subtract with overflow"
    /\ selection.some => selection.end # USIZE_MAX

\* C33: a selection is always inside the loaded file, its lower end being an
\* index of one of its bytes, and the data inspector never meets an offset at
\* or past the end of the data.
C33_SelectionInsideTheFile ==
    /\ selection.some => file_data.some /\ lower(selection) < Len(file_data.data)
    /\ ui_panic # "Impossible!"
\* C34: perform_search clears the results and forgets the search before it looks
\* at the file and the input: after a click on Search that returned early, for no
\* file, an empty input or an input that does not parse, the results panel is
\* empty and current_search is Empty, whatever they were before the click.
C34_EarlyReturnLeavesEmpty ==
    (/\ last_click = "search"
     /\ driver \in {"idle", "panicked"}
     /\ (~file_data.some \/ Input = <<>> \/ InputFails))
    => /\ search_results = <<>>
       /\ current_search = CurrentSearchEmpty

\* C34 witness: the click on Search returned early on an input that does not
\* parse, and the session before it had delivered offsets: the panel is empty
\* and current_search is Empty.
C34_Witness ==
    /\ last_click = "search"
    /\ driver = "idle"
    /\ file_data.some
    /\ Input # <<>>
    /\ InputFails
    /\ delivered # <<>>
    /\ search_results = <<>>
    /\ current_search = CurrentSearchEmpty
\* C35: the results panel never shows a stale offset. While a search is running
\* or finished, the session searches the loaded file, its needle has the length
\* kept in current_search, and every offset in the panel was received from it
\* and is the start of an occurrence of its needle in the loaded file; with no
\* search, after a file was opened or a click on Search returned early, the
\* panel is empty.
C35_NoStaleResults ==
    IF current_search.tag \in {"Searching", "Finished"}
    THEN /\ file_data.some
         /\ haystack = file_data.data
         /\ current_search.len = byte_length(needle)
         /\ \A k \in 1..Len(search_results) :
               /\ \E j \in 1..Len(delivered) : delivered[j] = search_results[k].offset
               /\ IsOccurrence(search_results[k].offset)
    ELSE search_results = <<>>

\* C35 witness: a file was opened while a search was running on another file; the
\* session on the old file had delivered offsets and is being cancelled, the
\* new file is loaded, and the panel is empty.
C35_Witness ==
    /\ driver = "open_join"
    /\ current_search = CurrentSearchEmpty
    /\ delivered # <<>>
    /\ file_data.some
    /\ file_data.data # haystack
    /\ search_results = <<>>
\* The 64 bits of the eight bytes at the start of b, most significant first.
Bits64(b, is_little_endian) ==
    LET bytes == IF is_little_endian THEN Reverse(SubSeq(b, 1, 8)) ELSE SubSeq(b, 1, 8)
    IN  [k \in 1..64 |-> (bytes[((k - 1) \div 8) + 1] \div (2 ^ (7 - ((k - 1) % 8)))) % 2]

\* The bits of |v| for the bits of a negative v in two's complement: every bit
\* above the lowest 1 is inverted, the lowest 1 and the zeros below it stay.
MagnitudeBits(bits) ==
    LET low == CHOOSE k \in 1..Len(bits) :
                   bits[k] = 1 /\ \A j \in (k + 1)..Len(bits) : bits[j] = 0
    IN  [k \in 1..Len(bits) |-> IF k < low THEN 1 - bits[k] ELSE bits[k]]

\* The digits of the bits in groups of w bits from the low end, without leading
\* zeros: w is 1 for Binary, 3 for Octal, 4 for Hexadecimal.
GroupDigits(bits, w) ==
    LET count == (Len(bits) + w - 1) \div w
        pad == count * w - Len(bits)
        padded == [k \in 1..pad |-> 0] \o bits
        Val(g) == IF w = 1 THEN padded[g]
                  ELSE IF w = 3 THEN 4 * padded[3 * g - 2] + 2 * padded[3 * g - 1] + padded[3 * g]
                  ELSE 8 * padded[4 * g - 3] + 4 * padded[4 * g - 2]
                       + 2 * padded[4 * g - 1] + padded[4 * g]
    IN  StripZeros([g \in 1..count |-> FmtDigitChars[Val(g) + 1]])

\* What the i64 row shows for the bytes b in a radix other than Decimal: "-" for
\* a pattern with the top bit set, the prefix, and the digits of |value|.
SignedText(b, radix, is_little_endian) ==
    LET bits == Bits64(b, is_little_endian)
        w == CASE radix = "Binary" -> 1 [] radix = "Octal" -> 3 [] radix = "Hexadecimal" -> 4
    IN  IF bits[1] = 1
        THEN <<"-">> \o RadixPrefix(radix) \o GroupDigits(MagnitudeBits(bits), w)
        ELSE RadixPrefix(radix) \o GroupDigits(bits, w)

\* C36: the signed formatting is defined for every pattern of 64 bits: in the
\* Hexadecimal, Binary and Octal radix the negation of the value never overflows,
\* and the i64 row is "-" for a negative value, the prefix and the digits of
\* |value|, i64::MIN in either byte order included.
C36_SignedFormatIsTotal ==
    /\ ui_panic # "attempt to negate with overflow"
    /\ (/\ ui_panic = "none"
        /\ inspected # NotInspected
        /\ data_inspector.radix # "Decimal")
       => inspected = SignedText(file_data.data, data_inspector.radix,
                                 data_inspector.little_endian)
====
